---- MODULE Spec2Model ----
(***************************************************************************)
(* pg-extend: the exception bridge (guard_pg, the panic hook, the log      *)
(* entry point), the allocator front end (PgAllocator, PgMemoryContext,    *)
(* PgAllocated) and the primitive datum conversions.                       *)
(*                                                                         *)
(* The program is single threaded.  Its control state is a stack of        *)
(* frames; every frame carries the position (pc) its function is at.       *)
(* The host (the database backend) and the Rust runtime are the            *)
(* environment: a host routine either returns or longjmps to               *)
(* PG_exception_stack, and panic! runs the installed panic hook before     *)
(* any unwinding starts.                                                   *)
(***************************************************************************)
EXTENDS Integers, Sequences, FiniteSets, TLC

\* ---------------------------------------------------------------- bounds
\* closures of the guest that may be entered one inside the other
MaxDepth == 2
\* the host's jump codes are 1..MaxJump
MaxJump == 2

VARIABLES
    stack,                  \* the call stack, outermost frame first
    PG_exception_stack,     \* 0: a target owned by the host; n > 0: jump buffer n
    CurrentMemoryContext,   \* the region that is current
    hookInstalled,          \* register_panic_handler has run
    panic_count,            \* the runtime's count of panics in progress
    ctl,                    \* "run", "unwind", "abort" or "ub"
    unw,                    \* payload of the panic that is unwinding
    left,                   \* history: the calls the last step left, and how
    prop,                   \* history: the host signal that is propagating
    handles,                \* the PgMemoryContext values
    regionSt,               \* what the host has done to each region
    objs,                   \* the PgAllocated values
    conv                    \* the datum conversion last made

glob == <<PG_exception_stack, CurrentMemoryContext>>

rt == <<hookInstalled, panic_count, ctl, unw>>

memVars == <<handles, regionSt, objs>>

vars == <<stack, glob, rt, left, prop, memVars, conv>>

\* ---------------------------------------------------------------- frames
JumpValues == 1..MaxJump

\* jump buffers live in guard_pg frames; a buffer is named by a number that is
\* not in use by a live frame, by a saved target or by PG_exception_stack
IdMax == MaxDepth + 6

Frame(kind, id, orig, pc, body, lvl, prev) ==
    [kind |-> kind, id |-> id, orig |-> orig, pc |-> pc, body |-> body,
     lvl |-> lvl, val |-> 0, jv |-> 0, nrest |-> 0, pgr |-> 0, prev |-> prev,
     pre |-> "None", h |-> 0]

Top == stack[Len(stack)]

Pop(s) == SubSeq(s, 1, Len(s) - 1)

SetTop(s, f) == [s EXCEPT ![Len(s)] = f]

UsedIds ==
    {stack[i].id : i \in 1..Len(stack)} \cup {stack[i].orig : i \in 1..Len(stack)}
        \cup {PG_exception_stack}

HasFresh == \E i \in 1..IdMax : i \notin UsedIds

FreshId == CHOOSE i \in 1..IdMax : i \notin UsedIds /\ \A j \in 1..(i - 1) : j \in UsedIds

Running == ctl = "run" /\ stack # <<>>

\* guest code is running: at top level, or inside a closure the guest passed in
InGuest ==
    /\ ctl = "run"
    /\ stack # <<>> => (Top.pc = "f" /\ Top.body = "guest")

GuestDepth == Cardinality({i \in 1..Len(stack) : stack[i].body = "guest"})

\* the guest may enter one more closure
CanEnter == InGuest /\ GuestDepth < MaxDepth

\* the record kept of a call that was left: pg and cur are the globals as the
\* call is left
ExitRec(f, how, pg, cur) ==
    [kind |-> f.kind, how |-> how, jumped |-> (f.jv # 0), moved |-> FALSE,
     ok |-> CASE f.kind = "guard" -> (pg = f.orig /\ f.nrest = 1)
              [] f.kind = "exec" -> (cur = f.prev)
              [] OTHER -> TRUE]

Tracked(f) == f.kind \in {"guard", "exec"}

\* frames from..Len(stack), given up by a non-local exit that passes them
Abandoned(from) ==
    {ExitRec(stack[i], "longjmp", PG_exception_stack, CurrentMemoryContext) :
        i \in {j \in from..Len(stack) : Tracked(stack[j])}}

\* the step leaves no call
Quiet == left' = {}

\* the frame of a log call; pgr and nrest are history: the exception target
\* as the call is entered, and the guarded or direct host calls it has made
log_frame(kind, lvl) ==
    [Frame(kind, 0, 0, "start", "", lvl, "") EXCEPT !.pgr = PG_exception_stack]

do_log_always(r) == TRUE

\* if pgbool!(do_log), do_log being what errstart returned
do_log(r) == r = 1

\* a callee returned r to the frame on top of s
Advance(s, r) ==
    IF s = <<>> THEN s
    ELSE LET t == s[Len(s)] IN
         SetTop(s,
            CASE t.kind = "guard" /\ t.pc = "f" /\ t.body # "guest" ->
                    [t EXCEPT !.pc = "ret", !.val = r]
              [] t.kind = "guard" /\ t.pc = "jumped_notice" ->
                    [t EXCEPT !.pc = "jumped_restore"]
              [] t.kind \in {"log", "elog"} /\ t.pc = "errstart" ->
                    [t EXCEPT !.pc = IF do_log(r) THEN "errfinish" ELSE "done",
                              !.val = r]
              [] t.kind \in {"log", "elog"} /\ t.pc = "errfinish_wait" ->
                    [t EXCEPT !.pc = "done"]
              [] t.kind = "hook" /\ t.pc = "notice" ->
                    [t EXCEPT !.pc = "longjmp"]
              [] t.kind = "hook" /\ t.pc = "error" ->
                    [t EXCEPT !.pc = "unreachable"]
              [] t.kind = "exec" /\ t.body = "guard" ->
                    [t EXCEPT !.pc = "ret"]
              [] t.kind = "drop" ->
                    [t EXCEPT !.pc = "ret"]
              [] OTHER -> t)

\* ------------------------------------------------------ the Rust runtime
\* panic!(payload) raised with s as the stack: the runtime counts the panic,
\* aborts when the hooks of two earlier panics are still running, and otherwise
\* calls the hook; the default hook returns and unwinding starts, unless a
\* panic is already in progress.  payload 0 is a message, n > 0 is
\* JumpContext { jump_value: n }.
Panic(payload, s) ==
    /\ panic_count' = panic_count + 1
    /\ hookInstalled' = hookInstalled
    /\ IF panic_count + 1 > 2
          THEN ctl' = "abort" /\ stack' = s /\ unw' = unw
       ELSE IF hookInstalled
          THEN /\ ctl' = "run"
               /\ stack' = Append(s, [Frame("hook", 0, 0, "start", "", "", "")
                                        EXCEPT !.val = payload])
               /\ unw' = unw
       ELSE IF panic_count + 1 > 1
          THEN ctl' = "abort" /\ stack' = s /\ unw' = unw
       ELSE ctl' = "unwind" /\ stack' = s /\ unw' = payload

\* ------------------------------------------------------------- the host
ErrorLevels == {"Error"}

LogLevels == {"Notice", "Error"}

\* siglongjmp(target, v): control resumes in the frame that owns the buffer,
\* the frames above it are given up as they are, and so are the values the
\* guest held when the host takes over; a buffer whose frame is gone is
\* undefined behaviour
Deliver(target, v) ==
    LET ps == {p \in 1..Len(stack) : stack[p].kind = "guard" /\ stack[p].id = target}
    IN  IF target = 0
           THEN /\ stack' = <<>>
                /\ ctl' = "run"
                /\ left' = Abandoned(1)
                /\ handles' = <<>>
                /\ objs' = SelectSeq(objs, LAMBDA o : o.dropped)
        ELSE IF ps # {}
           THEN LET p == CHOOSE q \in ps : TRUE
                IN  /\ stack' = [SubSeq(stack, 1, p) EXCEPT
                                    ![p] = [@ EXCEPT !.pc = "jumped", !.jv = v]]
                    /\ ctl' = "run"
                    /\ left' = Abandoned(p + 1)
                    /\ UNCHANGED <<handles, objs>>
        ELSE /\ ctl' = "ub"
             /\ stack' = stack
             /\ left' = {}
             /\ UNCHANGED <<handles, objs>>

\* the guards whose target is installed, innermost first, then the target
\* that was current before the outermost of them
ActiveGuards ==
    LET gs == SelectSeq(stack, LAMBDA f : f.kind = "guard" /\ f.pc = "f")
    IN  [i \in 1..(Len(gs) + 1) |->
            IF i <= Len(gs) THEN gs[Len(gs) + 1 - i].id
            ELSE IF gs = <<>> THEN PG_exception_stack ELSE gs[1].orig]

NoSignal == [v |-> 0, rest |-> <<>>, bad |-> FALSE]

\* the signal with code v reaches target `to`, and `rest` are the targets it
\* was still to reach, in order
Reached(v, rest, to, dv, bad) ==
    IF rest = <<>> THEN [v |-> 0, rest |-> <<>>, bad |-> TRUE]
    ELSE [v |-> IF Len(rest) = 1 THEN 0 ELSE v,
          rest |-> Tail(rest),
          bad |-> bad \/ to # rest[1] \/ dv # v]


\* where the host's own recovery leaves CurrentMemoryContext
HostContext == "MessageContext"

\* a host routine returns r to its caller
host_return(r) ==
    /\ Running /\ Top.kind = "host"
    /\ ~(Top.body = "errfinish" /\ Top.lvl \in ErrorLevels)
    /\ r = 0 => (Top.body = "errstart" /\ Top.lvl \notin ErrorLevels)
    /\ stack' = Advance(Pop(stack), r)
    /\ Quiet
    /\ UNCHANGED <<glob, rt, prop, memVars, conv>>

\* a host routine raises its error: it longjmps to PG_exception_stack with
\* code v.  Reports below Error severity return instead.
host_longjmp(v) ==
    /\ Running /\ Top.kind = "host"
    /\ Top.lvl = "" \/ (Top.body = "errfinish" /\ Top.lvl \in ErrorLevels)
    /\ Deliver(PG_exception_stack, v)
    /\ prop' = Reached(v, ActiveGuards, PG_exception_stack, v, FALSE)
    /\ CurrentMemoryContext' =
            IF PG_exception_stack = 0 THEN HostContext ELSE CurrentMemoryContext
    /\ UNCHANGED <<PG_exception_stack, hookInstalled, panic_count, unw, regionSt, conv>>

\* ------------------------------------------------------------- guard_pg
guard_frame(body) == Frame("guard", FreshId, PG_exception_stack, "f", body, "", "")

host_frame(routine, lvl) == Frame("host", 0, 0, "call", routine, lvl, "")

original_exception_stack(f) == f.orig

JumpContext_const(f) == 1

JumpContext(f) == f.jv

\* f() returned: the saved target is put back and the result handed on
guard_pg_return ==
    /\ Running /\ Top.kind = "guard"
    /\ Top.pc = "ret" \/ (Top.pc = "f" /\ Top.body = "guest")
    /\ PG_exception_stack' = original_exception_stack(Top)
    /\ stack' = Advance(Pop(stack), Top.val)
    /\ left' = {ExitRec([Top EXCEPT !.nrest = @ + 1], "return",
                        original_exception_stack(Top), CurrentMemoryContext)}
    /\ UNCHANGED <<CurrentMemoryContext, rt, prop, memVars, conv>>

\* sigsetjmp returned non-zero: notice!("PG longjmped: {}")
guard_pg_jumped ==
    /\ Running /\ Top.kind = "guard" /\ Top.pc = "jumped"
    /\ stack' = Append(SetTop(stack, [Top EXCEPT !.pc = "jumped_notice"]),
                       log_frame("log", "Notice"))
    /\ Quiet
    /\ UNCHANGED <<glob, rt, prop, memVars, conv>>

\* PG_exception_stack = original_exception_stack
guard_pg_restore ==
    /\ Running /\ Top.kind = "guard" /\ Top.pc = "jumped_restore"
    /\ PG_exception_stack' = original_exception_stack(Top)
    /\ stack' = SetTop(stack, [Top EXCEPT !.pc = "jumped_panic", !.nrest = @ + 1])
    /\ Quiet
    /\ UNCHANGED <<CurrentMemoryContext, rt, prop, memVars, conv>>

\* panic!(JumpContext { jump_value: jumped })
guard_pg_panic ==
    /\ Running /\ Top.kind = "guard" /\ Top.pc = "jumped_panic"
    /\ Panic(JumpContext(Top),
             SetTop(stack, [Top EXCEPT !.pc = "panicked", !.val = JumpContext(Top),
                                       !.pgr = PG_exception_stack]))
    /\ Quiet
    /\ UNCHANGED <<glob, prop, memVars, conv>>

\* ----------------------------------------------------- __private_api_log
\* a logging macro of the guest: notice!, error!, ...
private_api_log(lvl) ==
    /\ InGuest
    /\ stack' = Append(stack, log_frame("log", lvl))
    /\ Quiet
    /\ UNCHANGED <<glob, rt, prop, memVars, conv>>

\* guard_pg(|| routine(..)) entered and the routine called
guarded_host(s, routine, lvl) ==
    Append(Append(s, guard_frame(routine)), host_frame(routine, lvl))

\* guard_pg(|| errstart(..))
log_errstart ==
    /\ Running /\ Top.kind = "log" /\ Top.pc = "start" /\ HasFresh
    /\ stack' = guarded_host(SetTop(stack, [Top EXCEPT !.pc = "errstart",
                                                        !.nrest = @ + 1]),
                             "errstart", Top.lvl)
    /\ PG_exception_stack' = FreshId
    /\ Quiet
    /\ UNCHANGED <<CurrentMemoryContext, rt, prop, memVars, conv>>

\* if pgbool!(do_log) { guard_pg(|| { errmsg(..); errfinish(..) }) }
log_errfinish ==
    /\ Running /\ Top.kind = "log" /\ Top.pc = "errfinish" /\ HasFresh
    /\ stack' = guarded_host(SetTop(stack, [Top EXCEPT !.pc = "errfinish_wait",
                                                        !.nrest = @ + 1]),
                             "errfinish", Top.lvl)
    /\ PG_exception_stack' = FreshId
    /\ Quiet
    /\ UNCHANGED <<CurrentMemoryContext, rt, prop, memVars, conv>>

log_return ==
    /\ Running /\ Top.kind = "log" /\ Top.pc = "done"
    /\ stack' = Advance(Pop(stack), 0)
    /\ Quiet
    /\ UNCHANGED <<glob, rt, prop, memVars, conv>>

\* ---------------------------------------------------------- pg_error::log
\* the levels the foreign-table layer reports at
ErrorLogLevels == {"Warning", "Error"}

\* pg_error::log(level, ..): if pg_sys::errstart(errlevel, ..)
error_log_errstart(lvl) ==
    /\ InGuest
    /\ stack' = Append(Append(stack, [log_frame("elog", lvl) EXCEPT !.pc = "errstart",
                                                                   !.nrest = 1]),
                       host_frame("errstart", lvl))
    /\ Quiet
    /\ UNCHANGED <<glob, rt, prop, memVars, conv>>

\* { let msg_result = pg_sys::errmsg(msg); pg_sys::errfinish(msg_result); }
error_log_errfinish ==
    /\ Running /\ Top.kind = "elog" /\ Top.pc = "errfinish"
    /\ stack' = Append(SetTop(stack, [Top EXCEPT !.pc = "errfinish_wait",
                                                 !.nrest = @ + 1]),
                       host_frame("errfinish", Top.lvl))
    /\ Quiet
    /\ UNCHANGED <<glob, rt, prop, memVars, conv>>

error_log_return ==
    /\ Running /\ Top.kind = "elog" /\ Top.pc = "done"
    /\ stack' = Advance(Pop(stack), 0)
    /\ Quiet
    /\ UNCHANGED <<glob, rt, prop, memVars, conv>>

\* ------------------------------------------------------- the panic hook
register_panic_handler ==
    /\ InGuest /\ stack = <<>> /\ ~hookInstalled
    /\ hookInstalled' = TRUE
    /\ Quiet
    /\ UNCHANGED <<stack, glob, panic_count, ctl, unw, prop, memVars, conv>>

HookErrorLevel_notice == "Notice"

HookErrorLevel == "Error"

\* the payload is looked at: a JumpContext is announced with notice!, anything
\* else is reported with error!
hook_start ==
    /\ Running /\ Top.kind = "hook" /\ Top.pc = "start"
    /\ stack' = Append(SetTop(stack, [Top EXCEPT !.pc =
                                        IF Top.val # 0 THEN "notice" ELSE "error"]),
                       log_frame("log", IF Top.val # 0 THEN "Notice" ELSE HookErrorLevel))
    /\ Quiet
    /\ UNCHANGED <<glob, rt, prop, memVars, conv>>

hook_jump_value(f) == f.val

\* after the notice: pg_sys_longjmp(PG_exception_stack, jump_value);
\* after the error report: unreachable!()
hook_resume ==
    /\ Running /\ Top.kind = "hook" /\ Top.pc \in {"longjmp", "unreachable"}
    /\ IF Top.pc = "longjmp"
          THEN /\ Deliver(PG_exception_stack, hook_jump_value(Top))
               /\ prop' = Reached(prop.v, prop.rest, PG_exception_stack,
                                  hook_jump_value(Top), prop.bad)
               /\ CurrentMemoryContext' =
                     IF PG_exception_stack = 0 THEN HostContext ELSE CurrentMemoryContext
               /\ UNCHANGED <<PG_exception_stack, hookInstalled, panic_count, unw>>
          ELSE /\ Panic(0, stack)
               /\ Quiet
               /\ UNCHANGED <<glob, prop, handles, objs>>
    /\ UNCHANGED <<regionSt, conv>>

\* ----------------------------------------------------------- PgAllocator
\* the regions the guest holds allocators for, each taken with
\* current_context() while the region was current
AllocRegions == {"TopMemoryContext"}

previous_context(f) == f.prev

exec_frame(body) == Frame("exec", 0, 0, "f", body, "", CurrentMemoryContext)

\* PgAllocator(r).exec(f): the current region is saved, r made current and f
\* entered
PgAllocator_exec(r) ==
    /\ CanEnter
    /\ stack' = Append(stack, exec_frame("guest"))
    /\ CurrentMemoryContext' = r
    /\ Quiet
    /\ UNCHANGED <<PG_exception_stack, rt, prop, memVars, conv>>

\* PgAllocator(r).exec_with_guard(f) is self.exec(|| guard_pg(f))
PgAllocator_exec_with_guard(r) ==
    /\ CanEnter /\ HasFresh
    /\ stack' = Append(Append(stack, exec_frame("guard")), guard_frame("guest"))
    /\ CurrentMemoryContext' = r
    /\ PG_exception_stack' = FreshId
    /\ Quiet
    /\ UNCHANGED <<rt, prop, memVars, conv>>

\* f returned: the saved region is made current again
exec_return ==
    /\ Running /\ Top.kind = "exec"
    /\ Top.pc = "ret" \/ (Top.pc = "f" /\ Top.body = "guest")
    /\ CurrentMemoryContext' = previous_context(Top)
    /\ stack' = Advance(Pop(stack), 0)
    /\ left' = {ExitRec(Top, "return", PG_exception_stack, previous_context(Top))}
    /\ UNCHANGED <<PG_exception_stack, rt, prop, memVars, conv>>

\* -------------------------------------------- host calls of the library
\* made inside guard_pg
GuardedSites == {"cstring_to_text"}

\* made directly
UnguardedSites == {"pg_detoast_datum", "MemoryContextAlloc"}

LibSites == GuardedSites \cup UnguardedSites

\* the guest uses a library operation that calls the host routine `site`
lib_host_call(site) ==
    /\ InGuest
    /\ site \in GuardedSites => HasFresh
    /\ stack' = IF site \in GuardedSites THEN guarded_host(stack, site, "")
                ELSE Append(stack, host_frame(site, ""))
    /\ PG_exception_stack' = IF site \in GuardedSites THEN FreshId ELSE PG_exception_stack
    /\ Quiet
    /\ UNCHANGED <<CurrentMemoryContext, rt, prop, memVars, conv>>

\* ------------------------------------------------------- PgMemoryContext
\* PgMemoryContext values the guest may hold at a time
MaxHandles == 2

Regions == {"TopMemoryContext", "MessageContext", "child"}

\* the regions behind top() and message(); the host keeps them for good
PermanentRegions == {"TopMemoryContext", "MessageContext"}

\* PgMemoryContext { memcxt, savedcxt: None }; pre and base are history: the
\* region that was current before the latest switch_to, and the region that
\* was current when the guest held no value yet
new_handle(r) ==
    [memcxt |-> r, savedcxt |-> "None", pre |-> "None",
     base |-> IF handles = <<>> THEN CurrentMemoryContext ELSE handles[1].base]

Remove(q, i) == [j \in 1..(Len(q) - 1) |-> IF j < i THEN q[j] ELSE q[j + 1]]

CanHold == InGuest /\ Len(handles) < MaxHandles

\* PgMemoryContext::top()
PgMemoryContext_top ==
    /\ CanHold
    /\ handles' = Append(handles, new_handle("TopMemoryContext"))
    /\ Quiet
    /\ UNCHANGED <<stack, glob, rt, prop, regionSt, objs, conv>>

\* PgMemoryContext::message()
PgMemoryContext_message ==
    /\ CanHold
    /\ handles' = Append(handles, new_handle("MessageContext"))
    /\ Quiet
    /\ UNCHANGED <<stack, glob, rt, prop, regionSt, objs, conv>>

\* PgMemoryContext::current()
PgMemoryContext_current ==
    /\ CanHold
    /\ handles' = Append(handles, new_handle(CurrentMemoryContext))
    /\ Quiet
    /\ UNCHANGED <<stack, glob, rt, prop, regionSt, objs, conv>>

\* handles[i].create(..): the host makes a region below memcxt
PgMemoryContext_create(i) ==
    /\ CanHold /\ i \in 1..Len(handles)
    /\ regionSt["child"].st = "absent"
    /\ regionSt[handles[i].memcxt].st \in {"live", "reset"}
    /\ regionSt' = [regionSt EXCEPT !["child"] =
                        [st |-> "live", parent |-> handles[i].memcxt]]
    /\ handles' = Append(handles, new_handle("child"))
    /\ Quiet
    /\ UNCHANGED <<stack, glob, rt, prop, objs, conv>>

\* handles[i].switch_to()
switch_to(i) ==
    /\ InGuest /\ i \in 1..Len(handles)
    /\ handles' = [handles EXCEPT ![i] =
                      [@ EXCEPT !.savedcxt = CurrentMemoryContext,
                                !.pre = CurrentMemoryContext]]
    /\ CurrentMemoryContext' = handles[i].memcxt
    /\ Quiet
    /\ UNCHANGED <<stack, PG_exception_stack, rt, prop, regionSt, objs, conv>>

\* impl Drop for PgMemoryContext: the value of CurrentMemoryContext after the
\* drop of h, cur being its value before
Drop_keep(h, cur) == cur

Drop_PgMemoryContext(h, cur) == IF h.savedcxt # "None" THEN h.savedcxt ELSE cur

\* the record kept of a drop that took CurrentMemoryContext from cur to new
DropRec(h, how, cur, new) ==
    [kind |-> "drop", how |-> how, jumped |-> (h.pre # "None"), moved |-> (new # cur),
     ok |-> IF h.pre # "None" THEN new = h.pre ELSE new = cur]

\* handles[i] goes out of scope
drop_handle(i) ==
    /\ InGuest /\ i \in 1..Len(handles)
    /\ CurrentMemoryContext' = Drop_PgMemoryContext(handles[i], CurrentMemoryContext)
    /\ handles' = Remove(handles, i)
    /\ left' = {DropRec(handles[i], "scope", CurrentMemoryContext,
                        CurrentMemoryContext')}
    /\ UNCHANGED <<stack, PG_exception_stack, rt, prop, regionSt, objs, conv>>

\* handles[i].exec_in_context(f): self is moved in, switched to, and f entered
exec_in_context(i) ==
    /\ CanEnter /\ i \in 1..Len(handles)
    /\ stack' = Append(stack, [Frame("ctx", 0, 0, "f", "guest", "", CurrentMemoryContext)
                                EXCEPT !.pre = CurrentMemoryContext,
                                       !.lvl = handles[i].memcxt])
    /\ CurrentMemoryContext' = handles[i].memcxt
    /\ handles' = Remove(handles, i)
    /\ Quiet
    /\ UNCHANGED <<PG_exception_stack, rt, prop, regionSt, objs, conv>>

\* the PgMemoryContext value that an exec_in_context frame owns
frame_handle(f) == [memcxt |-> f.lvl, savedcxt |-> f.prev, pre |-> f.pre]

\* f returned: self is dropped at the end of exec_in_context
exec_in_context_return ==
    /\ Running /\ Top.kind = "ctx" /\ Top.pc = "f"
    /\ CurrentMemoryContext' = Drop_PgMemoryContext(frame_handle(Top), CurrentMemoryContext)
    /\ stack' = Advance(Pop(stack), 0)
    /\ left' = {DropRec(frame_handle(Top), "return", CurrentMemoryContext,
                        CurrentMemoryContext')}
    /\ UNCHANGED <<PG_exception_stack, rt, prop, memVars, conv>>

\* the regions below r
RECURSIVE Below(_, _)
Below(r, n) ==
    IF n = 0 THEN {}
    ELSE LET kids == {c \in Regions : regionSt[c].st # "absent" /\ regionSt[c].parent = r}
         IN  kids \cup UNION {Below(c, n - 1) : c \in kids}

Descendants(r) == Below(r, Cardinality(Regions))

\* pg_sys::MemoryContextReset: r is emptied and the regions below it deleted
MemoryContextReset(r) ==
    [c \in Regions |->
        IF c = r THEN [regionSt[c] EXCEPT !.st = "reset"]
        ELSE IF c \in Descendants(r) THEN [regionSt[c] EXCEPT !.st = "deleted"]
        ELSE regionSt[c]]

\* pg_sys::MemoryContextResetOnly: r is emptied
MemoryContextResetOnly(r) == [regionSt EXCEPT ![r].st = "reset"]

\* pg_sys::MemoryContextDelete: r and the regions below it are deleted
MemoryContextDelete(r) ==
    [c \in Regions |->
        IF c = r \/ c \in Descendants(r) THEN [regionSt[c] EXCEPT !.st = "deleted"]
        ELSE regionSt[c]]

Usable(r) == regionSt[r].st \in {"live", "reset"}

\* handles[i].reset()
reset(i) ==
    /\ InGuest /\ i \in 1..Len(handles) /\ Usable(handles[i].memcxt)
    /\ regionSt' = MemoryContextReset(handles[i].memcxt)
    /\ Quiet
    /\ UNCHANGED <<stack, glob, rt, prop, handles, objs, conv>>

\* handles[i].reset_only()
reset_only(i) ==
    /\ InGuest /\ i \in 1..Len(handles) /\ Usable(handles[i].memcxt)
    /\ regionSt' = MemoryContextResetOnly(handles[i].memcxt)
    /\ Quiet
    /\ UNCHANGED <<stack, glob, rt, prop, handles, objs, conv>>

\* handles[i].delete(): the host deletes the region, then self is dropped
delete(i) ==
    /\ InGuest /\ i \in 1..Len(handles) /\ Usable(handles[i].memcxt)
    /\ regionSt' = MemoryContextDelete(handles[i].memcxt)
    /\ CurrentMemoryContext' = Drop_PgMemoryContext(handles[i], CurrentMemoryContext)
    /\ handles' = Remove(handles, i)
    /\ left' = {DropRec(handles[i], "delete", CurrentMemoryContext,
                        CurrentMemoryContext')}
    /\ UNCHANGED <<stack, PG_exception_stack, rt, prop, objs, conv>>

\* ----------------------------------------------------------- PgAllocated
\* PgAllocated values made in one run
MaxObjs == 2

\* PgAllocated { inner: Some(ptr) }; took, dropped and frees are history:
\* take_ptr was called, the value was dropped, calls of free_p on its pointer
new_obj == [inner |-> TRUE, took |-> FALSE, dropped |-> FALSE, frees |-> 0]

LiveObjs == {i \in 1..Len(objs) : ~objs[i].dropped}

\* PgAllocated::from_raw(alloc, ptr)
PgAllocated_from_raw ==
    /\ InGuest /\ Len(objs) < MaxObjs
    /\ objs' = Append(objs, new_obj)
    /\ Quiet
    /\ UNCHANGED <<stack, glob, rt, prop, handles, regionSt, conv>>

\* objs[i].take_ptr(): self.inner.take().expect(..)
PgAllocated_take_ptr(i) ==
    /\ InGuest /\ i \in LiveObjs
    /\ IF objs[i].inner
          THEN /\ objs' = [objs EXCEPT ![i] = [@ EXCEPT !.inner = FALSE, !.took = TRUE]]
               /\ UNCHANGED <<stack, rt>>
          ELSE /\ Panic(0, stack)
               /\ objs' = objs
    /\ Quiet
    /\ UNCHANGED <<glob, prop, handles, regionSt, conv>>

holds_always(o) == TRUE

\* if let Some(inner) = self.inner.take()
holds_pointer(o) == o.inner

\* impl Drop for PgAllocated, o being the value of objs[i] that is dropped
\* with s as the stack: the pointer, if held, goes to dealloc, which calls
\* free_p inside guard_pg
Drop_PgAllocated(i, o, s, body) ==
    IF holds_pointer(o)
       THEN /\ stack' = guarded_host(Append(s, [Frame("drop", 0, 0, "f", body, "", "")
                                                    EXCEPT !.h = i]),
                                     "free_p", "")
            /\ PG_exception_stack' = FreshId
            /\ objs' = [objs EXCEPT ![i] = [o EXCEPT !.inner = FALSE, !.dropped = TRUE,
                                                     !.frees = @ + 1]]
       ELSE /\ stack' = s
            /\ PG_exception_stack' = PG_exception_stack
            /\ objs' = [objs EXCEPT ![i] = [o EXCEPT !.dropped = TRUE]]

\* objs[i] goes out of scope
PgAllocated_drop(i) ==
    /\ InGuest /\ i \in LiveObjs /\ HasFresh
    /\ Drop_PgAllocated(i, objs[i], stack, "scope")
    /\ Quiet
    /\ UNCHANGED <<CurrentMemoryContext, rt, prop, handles, regionSt, conv>>

\* Text::into_ptr(mut self): self.0.take_ptr(), then self is dropped
Text_into_ptr(i) ==
    /\ InGuest /\ i \in LiveObjs /\ objs[i].inner /\ HasFresh
    /\ Drop_PgAllocated(i, [objs[i] EXCEPT !.inner = FALSE, !.took = TRUE], stack, "scope")
    /\ Quiet
    /\ UNCHANGED <<CurrentMemoryContext, rt, prop, handles, regionSt, conv>>

\* dealloc returned; a drop made while unwinding hands control back to the
\* unwinder
drop_return ==
    /\ Running /\ Top.kind = "drop" /\ Top.pc = "ret"
    /\ stack' = Advance(Pop(stack), 0)
    /\ ctl' = IF Top.body = "cleanup" THEN "unwind" ELSE ctl
    /\ Quiet
    /\ UNCHANGED <<glob, hookInstalled, panic_count, unw, prop, memVars, conv>>

\* ------------------------------------------------------ PgDatum, numbers
\* a Datum is a usize: 64 bits, kept as 16-bit limbs, the lowest first
DatumLimbs == 4

LimbSamples == {0, 1, 32767, 32768, 65535}

NumTypes == {"i16", "i32", "i64", "f32", "f64"}

\* the limbs of a value of the type
Width(ty) ==
    CASE ty = "i16" -> 1
      [] ty \in {"i32", "f32"} -> 2
      [] OTHER -> 4

\* a value is its bit pattern: two's complement for the integers, the IEEE
\* encoding for the floats
Values(ty) == [1..Width(ty) -> LimbSamples]

SignLimb(l) == IF l >= 32768 THEN 65535 ELSE 0

\* `value as Datum` on a signed integer extends the sign
as_Datum_signed(v) ==
    [k \in 1..DatumLimbs |-> IF k <= Len(v) THEN v[k] ELSE SignLimb(v[Len(v)])]

\* `bits as Datum` on an unsigned integer extends with zeros
as_Datum_unsigned(v) ==
    [k \in 1..DatumLimbs |-> IF k <= Len(v) THEN v[k] ELSE 0]

truncate_i16(d, n) == SubSeq(d, 1, 1)

\* `datum as iN`, `datum as uN` keep the low n limbs
truncate(d, n) == SubSeq(d, 1, n)

\* PgDatum(Option<Datum>)
PgDatum_None == [null |-> TRUE, word |-> <<>>]

PgDatum_Some(d) == [null |-> FALSE, word |-> d]

\* impl From<T> for PgDatum
PgDatum_from(ty, v) ==
    IF ty \in {"i16", "i32", "i64"} THEN PgDatum_Some(as_Datum_signed(v))
    ELSE PgDatum_Some(as_Datum_unsigned(v))

\* impl TryFromPgDatum for T
try_from(ty, datum) ==
    IF datum.null THEN [ok |-> FALSE, v |-> <<>>]
    ELSE [ok |-> TRUE, v |-> truncate(datum.word, Width(ty))]

\* PgDatum::from(v)
convert_from ==
    /\ conv.stage = "value"
    /\ conv' = [conv EXCEPT !.stage = "datum", !.datum = PgDatum_from(conv.ty, conv.v)]
    /\ UNCHANGED <<stack, glob, rt, left, prop, memVars>>

\* T::try_from(alloc, datum)
convert_try_from ==
    /\ conv.stage = "datum"
    /\ conv' = [conv EXCEPT !.stage = "result", !.out = try_from(conv.ty, conv.datum)]
    /\ UNCHANGED <<stack, glob, rt, left, prop, memVars>>

\* ------------------------------------------------- PgDatum, every type
\* dimensions and elements of the arrays converted
MaxNdim == 2

MaxElems == 2

ZeroWord == [k \in 1..DatumLimbs |-> 0]

OnesWord == [k \in 1..DatumLimbs |-> 65535]

\* the address of a value of the host, and of the copy detoasting may make
PtrWord == [k \in 1..DatumLimbs |-> IF k = 1 THEN 4096 ELSE 0]

CopyWord == [k \in 1..DatumLimbs |-> IF k = 1 THEN 8192 ELSE 0]

\* Result<T, &'static str>
Ok(x) == [ok |-> TRUE, err |-> "", v |-> x]

Err(e) == [ok |-> FALSE, err |-> e, v |-> <<>>]

\* Result<Option<T>, &'static str>
OkNone == [ok |-> TRUE, err |-> "", some |-> FALSE, v |-> <<>>]

OkSome(x) == [ok |-> TRUE, err |-> "", some |-> TRUE, v |-> x]

ErrOpt(e) == [ok |-> FALSE, err |-> e, some |-> FALSE, v |-> <<>>]

from_raw_keep(w, is_null) == PgDatum_Some(w)

\* PgDatum::from_raw(alloc, datum, is_null)
PgDatum_from_raw(w, is_null) == IF is_null THEN PgDatum_None ELSE PgDatum_Some(w)

\* PgDatum::is_null
is_null(d) == d.null

\* PgDatum::into_datum
into_datum(d) == IF d.null THEN ZeroWord ELSE d.word

\* what a datum word points to in the host's memory: a text (its bytes, and
\* whether they are UTF-8) or an array (dimensions, element values)
NoObj == [kind |-> "none", bytes |-> <<>>, utf8 |-> TRUE, ndim |-> 0, vals |-> <<>>]

TextObjs ==
    {[NoObj EXCEPT !.kind = "text", !.bytes = <<104, 105>>],
     [NoObj EXCEPT !.kind = "text", !.bytes = <<255>>, !.utf8 = FALSE]}

\* 1 and -1, as bit patterns of the type
ElemSamples(ty) ==
    {[k \in 1..Width(ty) |-> IF k = 1 THEN 1 ELSE 0],
     [k \in 1..Width(ty) |-> 65535]}

SeqsUpTo(S, n) == UNION {[1..m -> S] : m \in 0..n}

\* the host gives an empty array no dimension
ArrayObjs(ty) ==
    UNION {{[NoObj EXCEPT !.kind = "array", !.ndim = nd, !.vals = vs] :
               vs \in {q \in SeqsUpTo(ElemSamples(ty), MaxElems) : (nd = 0) <=> (q = <<>>)}} :
           nd \in 0..MaxNdim}

\* the Datum the host's deconstruct_array makes of an element
HostElemDatum(ty, v) == PgDatum_from(ty, v).word

RECURSIVE Flatten(_)
Flatten(q) == IF q = <<>> THEN <<>> ELSE Head(q) \o Flatten(Tail(q))

\* the elements of a slice of T laid over memory of n limbs
slice_len(n, w) == n \div w

\* std::slice::from_raw_parts(datums.as_ptr() as *const T, size / size_of::<T>())
reinterpret(datums, ty) ==
    LET mem == Flatten(datums)
    IN  [k \in 1..slice_len(Len(mem), Width(ty)) |->
            SubSeq(mem, (k - 1) * Width(ty) + 1, k * Width(ty))]

\* DetoastedArrayWrapper::detoasted: pg_detoast_datum hands back its argument
\* or a copy
detoasted(w, same) ==
    IF w = ZeroWord THEN Err("datum was NULL")
    ELSE Ok([original_datum |-> w, arr_type |-> IF same THEN w ELSE CopyWord])

drop_frees_always(wr) == TRUE

\* impl Drop for DetoastedArrayWrapper: if self.arr_type != self.original_datum
drop_frees(wr) == wr.arr_type # wr.original_datum

NoFrees == [arr |-> 0, elements |-> 0]

\* the pfree calls of the drop of the wrapper; elements is set once
\* deconstruct_array has run
DetoastedArrayWrapper_drop(wr, deconstructed) ==
    IF drop_frees(wr)
       THEN [arr |-> 1, elements |-> IF deconstructed THEN 1 ELSE 0]
       ELSE NoFrees

ndim_accepted_one(nd) == nd = 1

\* if (*(detoasted_wrapper.arr_type)).ndim > 1 { return Err(..) }
ndim_accepted(nd) == ~(nd > 1)

\* impl TryFromPgDatum for &[T]: the result, the wrapper and the pfree calls
array_try_from(ty, datum, obj, same) ==
    IF datum.null THEN [res |-> Err("datum was NULL"), copy |-> FALSE, frees |-> NoFrees]
    ELSE LET w == detoasted(datum.word, same)
         IN  IF ~w.ok THEN [res |-> w, copy |-> FALSE, frees |-> NoFrees]
             ELSE IF ~ndim_accepted(obj.ndim)
                THEN [res |-> Err("argument must be empty or one-dimensional array"),
                      copy |-> ~same,
                      frees |-> DetoastedArrayWrapper_drop(w.v, FALSE)]
             ELSE [res |-> Ok(reinterpret([i \in 1..Len(obj.vals) |->
                                              HostElemDatum(ty, obj.vals[i])], ty)),
                   copy |-> ~same,
                   frees |-> DetoastedArrayWrapper_drop(w.v, TRUE)]

PtrTypes == {"CString", "String", "PgAllocated_CString", "Text"}

ConvTypes == NumTypes \cup PtrTypes \cup {"slice"}

\* impl TryFromPgDatum for T; elem is the element type of a slice
T_try_from(ty, elem, datum, obj, same) ==
    CASE ty \in NumTypes ->
            IF try_from(ty, datum).ok THEN Ok(try_from(ty, datum).v)
            ELSE Err("datum was NULL")
      [] ty \in {"CString", "PgAllocated_CString"} ->
            IF datum.null THEN Err("datum was NULL") ELSE Ok(obj.bytes)
      [] ty = "String" ->
            IF datum.null THEN Err("datum was NULL")
            ELSE IF obj.utf8 THEN Ok(obj.bytes)
            ELSE Err("String contained non-utf8 data")
      [] ty = "Text" ->
            IF datum.null THEN Err("datum was NULL") ELSE Ok(datum.word)
      [] OTHER -> array_try_from(elem, datum, obj, same).res

Option_swallow(ty, elem, datum, obj, same) ==
    IF is_null(datum) \/ ~T_try_from(ty, elem, datum, obj, same).ok THEN OkNone
    ELSE OkSome(T_try_from(ty, elem, datum, obj, same).v)

\* impl TryFromPgDatum for Option<T>
Option_try_from(ty, elem, datum, obj, same) ==
    IF is_null(datum) THEN OkNone
    ELSE IF T_try_from(ty, elem, datum, obj, same).ok
       THEN OkSome(T_try_from(ty, elem, datum, obj, same).v)
    ELSE ErrOpt(T_try_from(ty, elem, datum, obj, same).err)

FromTypes == NumTypes \cup {"String", "CString", "Text", "unit", "Datum"}

\* impl From<T> for PgDatum; the host's cstring_to_text and Text::into_ptr
\* give the address of a text
PgDatum_from_T(ty, v) ==
    CASE ty \in NumTypes -> PgDatum_from(ty, v)
      [] ty = "unit" -> PgDatum_None
      [] ty = "Datum" -> PgDatum_Some(v)
      [] OTHER -> PgDatum_Some(PtrWord)

None_as_zero(ty, opt) ==
    IF opt.some THEN PgDatum_from_T(ty, opt.v) ELSE PgDatum_Some(ZeroWord)

\* impl From<Option<T>> for PgDatum
PgDatum_from_Option(ty, opt) ==
    IF opt.some THEN PgDatum_from_T(ty, opt.v) ELSE PgDatum_None

\* the values of T a guest function returns
FromValues(ty) ==
    CASE ty \in NumTypes -> ElemSamples(ty)
      [] ty = "unit" -> {<<>>}
      [] ty = "Datum" -> {ZeroWord, PtrWord, OnesWord}
      [] ty = "Text" -> {PtrWord}
      [] OTHER -> {o.bytes : o \in {t \in TextObjs : t.utf8}}

\* the words the host passes for an argument of the type
ArgWords(ty) ==
    CASE ty \in NumTypes -> {HostElemDatum(ty, v) : v \in ElemSamples(ty)}
      [] ty \in PtrTypes -> {PtrWord}
      [] OTHER -> {PtrWord, ZeroWord}

ArgObjs(ty, elem) ==
    CASE ty \in NumTypes -> {NoObj}
      [] ty \in PtrTypes -> TextObjs
      [] OTHER -> ArrayObjs(elem)

NoResult == [res |-> Err(""), copy |-> FALSE, frees |-> NoFrees]

\* the state of one conversion
ConvState(stage, ty, elem, nl, w, w2, obj, same, opt) ==
    [stage |-> stage, ty |-> ty, elem |-> elem, null |-> nl, w |-> w, w2 |-> w2,
     obj |-> obj, same |-> same, opt |-> opt,
     d |-> PgDatum_None, d2 |-> PgDatum_None, made |-> PgDatum_None,
     outT |-> Err(""), outT2 |-> Err(""), outO |-> OkNone, outO2 |-> OkNone,
     arr |-> NoResult]

\* an argument of the host: its word and null flag (w2 is another word under
\* the same flag), what the word points to, whether detoasting copies
DatumInputs ==
    UNION {{ConvState("raw", in.ty, in.elem, in.nl, in.w, w2, obj, same, OkNone) :
               w2 \in IF in.nl THEN {ZeroWord, PtrWord, OnesWord} ELSE {in.w},
               obj \in ArgObjs(in.ty, in.elem),
               same \in IF in.ty = "slice" THEN BOOLEAN ELSE {TRUE}} :
           in \in UNION {[ty : {ty}, nl : BOOLEAN, w : ArgWords(ty),
                          elem : IF ty = "slice" THEN NumTypes ELSE {"i32"}] :
                         ty \in ConvTypes}}

\* the value a guest function returns: None or Some(v)
OptionInputs ==
    UNION {{ConvState("option", ty, "i32", FALSE, ZeroWord, ZeroWord, NoObj, TRUE, opt) :
               opt \in {OkNone} \cup {OkSome(v) : v \in FromValues(ty)}} :
           ty \in FromTypes}

\* PgDatum::from_raw on the argument
datum_from_raw ==
    /\ conv.stage = "raw"
    /\ conv' = [conv EXCEPT !.stage = "datum",
                            !.d = PgDatum_from_raw(conv.w, conv.null),
                            !.d2 = PgDatum_from_raw(conv.w2, conv.null)]
    /\ UNCHANGED <<stack, glob, rt, left, prop, memVars>>

\* T::try_from and Option::<T>::try_from on the datum
datum_try_from ==
    /\ conv.stage = "datum"
    /\ conv' = [conv EXCEPT
          !.stage = "result",
          !.outT = T_try_from(conv.ty, conv.elem, conv.d, conv.obj, conv.same),
          !.outT2 = T_try_from(conv.ty, conv.elem, conv.d2, conv.obj, conv.same),
          !.outO = Option_try_from(conv.ty, conv.elem, conv.d, conv.obj, conv.same),
          !.outO2 = Option_try_from(conv.ty, conv.elem, conv.d2, conv.obj, conv.same),
          !.arr = IF conv.ty = "slice"
                     THEN array_try_from(conv.elem, conv.d, conv.obj, conv.same)
                     ELSE NoResult]
    /\ UNCHANGED <<stack, glob, rt, left, prop, memVars>>

\* PgDatum::from(Option<T>)
option_into_datum ==
    /\ conv.stage = "option"
    /\ conv' = [conv EXCEPT !.stage = "made",
                            !.made = PgDatum_from_Option(conv.ty, conv.opt)]
    /\ UNCHANGED <<stack, glob, rt, left, prop, memVars>>

\* --------------------------------------------------------------- VarLenA
\* The first four bytes of a varlena as two 16-bit limbs, lowest first; the
\* first byte in memory is the low byte of the first limb.
FirstByte(h) == h[1] % 256

\* the layouts, by the masks from_varlena tests the first byte with
HeaderLayout(h) ==
    IF FirstByte(h) = 1 THEN "1b_e"
    ELSE IF FirstByte(h) % 2 = 1 THEN "1b"
    ELSE IF FirstByte(h) % 4 = 0 THEN "4b_u"
    ELSE "4b_c"

\* the header the host writes for a value of a layout whose size, header
\* included, is total: the size shifted over the tag bits
HostHeader(layout, total) ==
    CASE layout = "4b_u" -> <<(total * 4) % 65536, (total * 4) \div 65536>>
      [] layout = "4b_c" -> <<((total * 4) % 65536) + 2, (total * 4) \div 65536>>
      [] layout = "1b" -> <<(total * 2) + 1, 0>>
      [] OTHER -> <<1, 0>>

\* sizes a value can have, header included
TotalSizes(layout) ==
    CASE layout \in {"4b_u", "4b_c"} -> {4, 5, 17, 16383, 16384, 65536, 536870911}
      [] layout = "1b" -> {1, 2, 17, 64, 127}
      [] OTHER -> {0}

\* VarLenA::from_varlena
from_varlena(h) ==
    IF FirstByte(h) % 2 = 0 THEN "VarAtt4b"
    ELSE IF FirstByte(h) % 4 = 0 THEN "VarAtt4bU"
    ELSE IF FirstByte(h) % 4 = 2 THEN "VarAtt4bC"
    ELSE IF FirstByte(h) % 2 = 1 THEN "VarAtt1b"
    ELSE IF FirstByte(h) = 1 THEN "VarAtt1bE"
    ELSE "VarAttNotPadByte"

\* the layout a variant of VarLenA stands for
VariantLayout(variant) ==
    CASE variant \in {"VarAtt4b", "VarAtt4bU"} -> "4b_u"
      [] variant = "VarAtt4bC" -> "4b_c"
      [] variant = "VarAtt1b" -> "1b"
      [] variant = "VarAtt1bE" -> "1b_e"
      [] OTHER -> "none"

\* a - b on usize: a build with overflow checks panics when b > a, one
\* without wraps around (short is what the result falls short of 2^64)
usize_sub(a, b, checks) ==
    IF a >= b THEN [kind |-> "len", v |-> a - b]
    ELSE IF checks THEN [kind |-> "panic", v |-> 0]
    ELSE [kind |-> "wrapped", v |-> b - a]

len_keeps_header(variant, h, checks) ==
    IF variant = "VarAtt4b" THEN usize_sub((h[1] \div 4) + (h[2] * 16384), 0, checks)
    ELSE usize_sub((FirstByte(h) \div 2) % 128, 0, checks)

\* VarLenA::len
VarLenA_len(variant, h, checks) ==
    CASE variant = "VarAtt4b" -> usize_sub((h[1] \div 4) + (h[2] * 16384), 4, checks)
      [] variant = "VarAtt1b" -> usize_sub((FirstByte(h) \div 2) % 128, 1, checks)
      [] OTHER -> [kind |-> "panic", v |-> 0]

\* a value of the host and the build of the library
VarlenaInputs ==
    UNION {{[stage |-> "varlena", layout |-> layout, total |-> total,
             h |-> HostHeader(layout, total), checks |-> checks,
             variant |-> "", len |-> [kind |-> "", v |-> 0]] :
               total \in TotalSizes(layout), checks \in BOOLEAN} :
           layout \in {"4b_u", "4b_c", "1b", "1b_e"}}

\* VarLenA::from_varlena(self.0.as_ref()) of Text::len and of the derefs
varlena_from_varlena ==
    /\ conv.stage = "varlena"
    /\ conv' = [conv EXCEPT !.stage = "classified", !.variant = from_varlena(conv.h)]
    /\ UNCHANGED <<stack, glob, rt, left, prop, memVars>>

\* varlena.len()
varlena_len ==
    /\ conv.stage = "classified"
    /\ conv' = [conv EXCEPT !.stage = "measured",
                            !.len = VarLenA_len(conv.variant, conv.h, conv.checks)]
    /\ UNCHANGED <<stack, glob, rt, left, prop, memVars>>

\* ------------------------------------------------------ ForeignWrapper
\* rows of a session and columns of the foreign table
MaxRows == 2

NAttrs == 2

\* what ForeignRow::get_field gives for a column: Ok(Some(datum)), Ok(None)
\* or Err
FieldResults == {"some", "none", "err"}

FdwRows == [1..NAttrs -> FieldResults]

\* the address Box::into_raw gives the session
SessionPtr == 1

ClearedSlot == [empty |-> TRUE, tuple |-> <<>>]

\* pg_sys::ExecClearTuple(slot)
ExecClearTuple(slot) == ClearedSlot

form_tuple_all_null(row) == [i \in 1..NAttrs |-> [isnull |-> TRUE, data |-> ZeroWord]]

\* data and isnull after the loop over the columns, as heap_form_tuple takes
\* them: a column is set only for Ok(Some(var))
heap_form_tuple(row) ==
    [i \in 1..NAttrs |->
        IF row[i] = "some" THEN [isnull |-> FALSE, data |-> PtrWord]
        ELSE [isnull |-> TRUE, data |-> ZeroWord]]

\* pg_sys::ExecStoreTuple(tuple, slot, ..)
ExecStoreTuple(tuple, slot) == [empty |-> FALSE, tuple |-> tuple]

into_raw_null(wrapper) == 0

\* Box::into_raw(wrapper): the address the box was made from
Box_into_raw(wrapper) == wrapper.ptr

log_returns(level, msg) ==
    [report |-> [level |-> level, msg |-> msg], jumped |-> FALSE]

\* pg_error::log(level, .., msg): errstart and errfinish are called as they
\* are, and errfinish does not return at Error or above
pg_error_log(level, msg) ==
    [report |-> [level |-> level, msg |-> msg],
     jumped |-> level \in {"Error", "Fatal", "Panic"}]

\* the reports of the loop over the columns: one per column whose get_field
\* gave Err
get_field_reports(row) ==
    LET F[i \in 0..NAttrs] ==
            IF i = 0 THEN <<>>
            ELSE IF row[i] = "err"
               THEN Append(F[i - 1], pg_error_log("Warning", "get_field").report)
            ELSE F[i - 1]
    IN  F[NAttrs]

\* rescans of one scan
MaxRescans == 1

\* a query over the foreign table: the rows T::next() will yield
FdwInputs ==
    {[stage |-> "begin", rows |-> rows, pos |-> 0, fdw_state |-> 0,
      live |-> FALSE, slot |-> ClearedSlot, ret |-> "", seen |-> <<>>,
      reports |-> <<>>, rescans |-> 0] :
        rows \in SeqsUpTo(FdwRows, MaxRows)}

\* ForeignWrapper::begin_foreign_scan
begin_foreign_scan ==
    /\ conv.stage = "begin"
    /\ conv' = [conv EXCEPT !.stage = "scan", !.live = TRUE,
                            !.fdw_state = Box_into_raw([ptr |-> SessionPtr])]
    /\ UNCHANGED <<stack, glob, rt, left, prop, memVars>>

\* ForeignWrapper::iterate_foreign_scan; the host stops calling once it got
\* no tuple. seen is what the host finds in the slot after each call.
iterate_foreign_scan ==
    /\ conv.stage = "scan"
    /\ LET wrapper == [ptr |-> conv.fdw_state]
           slot == ExecClearTuple(conv.slot)
           more == conv.pos < Len(conv.rows)
           after == IF more
                       THEN ExecStoreTuple(heap_form_tuple(conv.rows[conv.pos + 1]), slot)
                       ELSE slot
       IN  conv' = [conv EXCEPT
                !.stage = IF more THEN "scan" ELSE "end",
                !.pos = IF more THEN conv.pos + 1 ELSE conv.pos,
                !.slot = after,
                !.ret = IF more THEN "slot" ELSE "null",
                !.fdw_state = Box_into_raw(wrapper),
                !.reports = IF more THEN get_field_reports(conv.rows[conv.pos + 1])
                            ELSE <<>>,
                !.seen = Append(conv.seen, after)]
    /\ UNCHANGED <<stack, glob, rt, left, prop, memVars>>

\* ForeignWrapper::rescan_foreign_scan: the body is empty. The host calls
\* iterate_foreign_scan again afterwards; seen starts over.
rescan_foreign_scan ==
    /\ conv.stage \in {"scan", "end"}
    /\ conv.rescans < MaxRescans
    /\ conv' = [conv EXCEPT !.stage = "scan", !.rescans = conv.rescans + 1,
                            !.seen = <<>>]
    /\ UNCHANGED <<stack, glob, rt, left, prop, memVars>>

\* ForeignWrapper::end_foreign_scan: the body is empty
end_foreign_scan ==
    /\ conv.stage \in {"scan", "end"}
    /\ conv' = [conv EXCEPT !.stage = "ended"]
    /\ UNCHANGED <<stack, glob, rt, left, prop, memVars>>

\* ------------------------------------------- ForeignWrapper, modification
\* rows one statement touches
MaxCalls == 2

\* the attributes of the foreign table, by name
TableAttrs == <<"key", "value">>

AttrNames == {TableAttrs[i] : i \in 1..Len(TableAttrs)}

\* what T::index_columns names (a name may be no column of the table)
KeyNames == AttrNames \cup {"nokey"}

\* the target list the statement came with: one entry per column of SET
StatementTargets(cols) ==
    [i \in 1..Len(cols) |-> [resno |-> i, resname |-> cols[i], resjunk |-> FALSE]]

makeTargetEntry_shown(list, key) ==
    [resno |-> Len(list) + 1, resname |-> key, resjunk |-> FALSE]

\* pg_sys::makeTargetEntry(var, list_size + 1, pstrdup(key), true)
makeTargetEntry(list, key) ==
    [resno |-> Len(list) + 1, resname |-> key, resjunk |-> TRUE]

lappend_nothing(list, tle) == list

\* pg_sys::lappend((*parsetree).targetList, tle)
lappend(list, tle) == Append(list, tle)

\* the loop over the keys of add_foreign_update_targets; a key that is no
\* column is reported at Error, which leaves the loop
RECURSIVE update_targets(_, _)
update_targets(list, keys) ==
    IF keys = <<>> THEN [list |-> list, jumped |-> FALSE]
    ELSE IF Head(keys) \notin AttrNames
       THEN [list |-> list, jumped |-> pg_error_log("Error", "Table has no such key").jumped]
    ELSE update_targets(lappend(list, makeTargetEntry(list, Head(keys))), Tail(keys))

\* ForeignWrapper::tts_to_hashmap: the names of the slot's descriptor; a
\* later attribute of the same name replaces an earlier one
tts_to_hashmap(attrs) ==
    [n \in {attrs[i].resname : i \in 1..Len(attrs)} |->
        CHOOSE i \in 1..Len(attrs) :
            /\ attrs[i].resname = n
            /\ \A j \in 1..Len(attrs) : attrs[j].resname = n => j <= i]

\* the message of the default method of ForeignData
DefaultMessage(op) ==
    CASE op = "update" -> "Table does not support update"
      [] op = "insert" -> "Table does not support insert"
      [] OTHER -> "Table does not support delete"

\* ForeignData::update / insert / delete: the default reports and, were the
\* report to return, gives None; impl is what the wrapper's own method gives
ForeignData_modify(op, impl) ==
    IF impl = "default"
       THEN [result |-> "none", report |-> <<pg_error_log("Error", DefaultMessage(op)).report>>,
             jumped |-> pg_error_log("Error", DefaultMessage(op)).jumped]
       ELSE [result |-> impl, report |-> <<>>, jumped |-> FALSE]

\* whether the callback ends without (*rinfo).ri_FdwState = Box::into_raw(wrapper)
drops_wrapper(op) == op = "update"

SeqsNoRepeat(S, n) == {q \in SeqsUpTo(S, n) : \A i, j \in 1..Len(q) : q[i] = q[j] => i = j}

\* a statement on the foreign table, the index columns the wrapper declares
\* (none |-> TRUE for None) and what its own update/insert/delete gives
ModifyInputs ==
    UNION {{[stage |-> "rewrite", op |-> op, keys |-> keys, impl |-> impl,
             before |-> StatementTargets(cols), targetList |-> StatementTargets(cols),
             ri_FdwState |-> 0, live |-> FALSE, calls |-> 0, got |-> {},
             exit |-> "", ret |-> "", report |-> <<>>] :
               keys \in {[none |-> TRUE, names |-> <<>>]} \cup
                        {[none |-> FALSE, names |-> q] : q \in SeqsNoRepeat(KeyNames, 2)},
               impl \in {"default", "some", "none"},
               cols \in IF op = "update" THEN SeqsNoRepeat(AttrNames, 2) \ {<<>>}
                        ELSE {<<>>}} :
           op \in {"update", "delete", "insert"}}

\* ForeignWrapper::add_foreign_update_targets, which the host calls for
\* UPDATE and DELETE
add_foreign_update_targets ==
    /\ conv.stage = "rewrite" /\ conv.op \in {"update", "delete"}
    /\ LET r == IF conv.keys.none THEN [list |-> conv.targetList, jumped |-> FALSE]
                ELSE update_targets(conv.targetList, conv.keys.names)
       IN  conv' = [conv EXCEPT !.stage = IF r.jumped THEN "aborted" ELSE "planned",
                                !.targetList = r.list,
                                !.exit = IF r.jumped THEN "longjmp" ELSE "return"]
    /\ UNCHANGED <<stack, glob, rt, left, prop, memVars>>

\* ForeignWrapper::begin_foreign_modify
begin_foreign_modify ==
    /\ \/ conv.stage = "planned"
       \/ conv.stage = "rewrite" /\ conv.op = "insert"
    /\ conv' = [conv EXCEPT !.stage = "modify", !.live = TRUE,
                            !.ri_FdwState = Box_into_raw([ptr |-> SessionPtr])]
    /\ UNCHANGED <<stack, glob, rt, left, prop, memVars>>

\* ForeignWrapper::exec_foreign_update / exec_foreign_delete /
\* exec_foreign_insert on one row. The plan slot has the attributes of the
\* target list. Taking the box of a session already dropped is undefined.
exec_foreign_modify ==
    /\ conv.stage = "modify" /\ conv.calls < MaxCalls
    /\ IF ~conv.live
          THEN conv' = [conv EXCEPT !.stage = "ub", !.calls = conv.calls + 1]
          ELSE LET m == ForeignData_modify(conv.op, conv.impl)
               IN  conv' = [conv EXCEPT
                      !.stage = IF m.jumped THEN "aborted" ELSE "modify",
                      !.calls = conv.calls + 1,
                      !.got = IF conv.op = "insert" THEN {}
                              ELSE DOMAIN tts_to_hashmap(conv.targetList),
                      !.report = m.report,
                      !.exit = IF m.jumped THEN "longjmp" ELSE "return",
                      !.ret = IF m.jumped THEN ""
                              ELSE IF m.result = "none" THEN "null" ELSE "slot",
                      !.live = IF m.jumped THEN conv.live ELSE ~drops_wrapper(conv.op),
                      !.ri_FdwState = conv.ri_FdwState]
    /\ UNCHANGED <<stack, glob, rt, left, prop, memVars>>

\* ------------------------------------------------- the pg_extern wrapper
\* calls of the wrapper by one backend
MaxExternCalls == 2

\* .expect("unsupported function argument type for arg_i")
arg_error(i) == IF i = 0 THEN "unsupported function argument type for arg_0"
                ELSE "unsupported function argument type for arg_1"

\* the record of the calls: n counts them, isnull is func_info.isnull as the
\* last call left it
NoCall == [stage |-> "idle", n |-> 0, argnull |-> FALSE, isnull |-> FALSE,
           result |-> PgDatum_None, ret |-> ZeroWord, msg |-> "", panics |-> 0]

isnull_kept(old, result) == old

\* func_info.isnull = result.is_null().into()
wrapper_isnull(old, result) == is_null(result)

\* the host calls the wrapper of a function of one i32 argument; the library
\* was loaded before, so _PG_init has registered the hook
pg_extern_call ==
    /\ ctl = "run" /\ stack = <<>> /\ hookInstalled
    /\ conv.stage \in {"idle", "returned", "guest", "argfail"}
    /\ conv.n < MaxExternCalls
    /\ \E nl \in BOOLEAN :
          conv' = [conv EXCEPT !.stage = "args", !.n = conv.n + 1, !.argnull = nl,
                               !.msg = "", !.panics = panic_count]
    /\ stack' = <<Frame("wrapper", 0, 0, "args", "", "", "")>>
    /\ Quiet
    /\ UNCHANGED <<glob, rt, prop, memVars>>

\* let arg_0: i32 = TryFromPgDatum::try_from(.., PgDatum::from_raw(..)).expect(..);
\* then the guest function runs
pg_extern_args ==
    /\ Running /\ Top.kind = "wrapper" /\ Top.pc = "args"
    /\ IF T_try_from("i32", "i32", PgDatum_from_raw(PtrWord, conv.argnull), NoObj, TRUE).ok
          THEN /\ stack' = SetTop(stack, [Top EXCEPT !.pc = "f", !.body = "guest"])
               /\ conv' = [conv EXCEPT !.stage = "guest"]
               /\ UNCHANGED rt
          ELSE /\ Panic(0, stack)
               /\ conv' = [conv EXCEPT !.stage = "argfail", !.msg = arg_error(0)]
    /\ Quiet
    /\ UNCHANGED <<glob, prop, memVars>>

\* the guest function returned and catch_unwind gave Ok(result)
pg_extern_return ==
    /\ Running /\ Top.kind = "wrapper" /\ Top.pc = "f"
    /\ \E result \in {PgDatum_None, PgDatum_Some(ZeroWord), PgDatum_Some(PtrWord)} :
          conv' = [conv EXCEPT !.stage = "returned", !.result = result,
                               !.isnull = wrapper_isnull(conv.isnull, result),
                               !.ret = into_datum(result)]
    /\ stack' = <<>>
    /\ Quiet
    /\ UNCHANGED <<glob, rt, prop, memVars>>

\* ------------------------------------------------- CREATE FUNCTION
\* arguments of a wrapped function
MaxArgs == 3

\* argument types of a wrapped function; a PgAllocator reference is looked
\* for in the first place only
SqlArgTypes == {"i32", "i64", "String", "Option_i32"}

\* result types of a wrapped function
SqlRetTypes == {"i32", "String", "unit"}

\* PgTypeInfo::pg_type
pg_type(ty) ==
    CASE ty = "i16" -> "Int2"
      [] ty \in {"i32", "Option_i32"} -> "Int4"
      [] ty = "i64" -> "Int8"
      [] ty \in {"String", "CString"} -> "Text"
      [] OTHER -> "Void"

\* PgType::as_str
as_str(pgtype) ==
    CASE pgtype = "Int2" -> "int2"
      [] pgtype = "Int4" -> "int4"
      [] pgtype = "Int8" -> "int8"
      [] pgtype = "Text" -> "text"
      [] OTHER -> "void"

\* PgType::from_rust::<T>()
from_rust(ty) == pg_type(ty)

\* PgType::return_stmt
return_stmt(pgtype) == <<"RETURNS", as_str(pgtype)>>

\* check_for_pg_allocator
check_for_pg_allocator(ty) == ty = "PgAllocator"

\* PgTypeInfo::is_option
is_option(ty) == ty = "Option_i32"

any_non_option_strict(types) ==
    IF \E i \in 1..Len(types) : ~is_option(types[i]) THEN " STRICT" ELSE ""

\* the expression sql_function_options generates, evaluated when the
\* statement is made
optional_args_options(types) ==
    IF \A i \in 1..Len(types) : is_option(types[i]) THEN ""
    ELSE IF ~\E i \in 1..Len(types) : is_option(types[i]) THEN " STRICT"
    ELSE "panic"

\* the SQL arguments: arg_types without a leading PgAllocator
sql_args(arg_types) ==
    IF arg_types # <<>> /\ check_for_pg_allocator(Head(arg_types))
       THEN Tail(arg_types) ELSE arg_types

\* sql_function_options
sql_function_options(arg_types) ==
    IF arg_types = <<>> THEN ""
    ELSE IF sql_args(arg_types) = <<>> THEN ""
    ELSE optional_args_options(sql_args(arg_types))

\* the value sql_param_types binds to sql_i:
\* pg_extend::pg_type::PgType::from_rust::<String>().as_str()
sql_param(arg_type) == as_str(from_rust("String"))

\* sql_param_types: the values of sql_0, sql_1, .. for the SQL arguments
sql_param_types(arg_types) ==
    [i \in 1..Len(sql_args(arg_types)) |-> sql_param(sql_args(arg_types)[i])]

\* num_sql_args of impl_info_for_fn
num_sql_args(arg_types) ==
    IF arg_types # <<>> /\ check_for_pg_allocator(Head(arg_types))
       THEN Len(arg_types) - 1 ELSE Len(arg_types)

\* sql_param_list with its places {sql_0},..,{sql_n-1} filled in by format!
sql_param_list(num_args, values) == [i \in 1..num_args |-> values[i]]

\* sql_return_type
sql_return_type(output) == return_stmt(from_rust(output))

\* the signatures of wrapped functions
SqlInputs ==
    {[stage |-> "fn", arg_types |-> lead \o args, output |-> out, opts |-> "",
      params |-> <<>>, ret |-> <<>>] :
        lead \in {<<>>, <<"PgAllocator">>}, args \in SeqsUpTo(SqlArgTypes, MaxArgs),
        out \in SqlRetTypes}

\* the create statement of the function is made
pg_create_stmt ==
    /\ conv.stage = "fn"
    /\ conv' = [conv EXCEPT !.stage = "stmt",
                            !.params = sql_param_list(num_sql_args(conv.arg_types),
                                                      sql_param_types(conv.arg_types)),
                            !.ret = sql_return_type(conv.output),
                            !.opts = sql_function_options(conv.arg_types)]
    /\ UNCHANGED <<stack, glob, rt, left, prop, memVars>>

\* ------------------------------------------------------------ the guest
\* guest code panics with a message
guest_panic ==
    /\ InGuest
    /\ Panic(0, stack)
    /\ Quiet
    /\ UNCHANGED <<glob, prop, memVars, conv>>

\* unwinding leaves the innermost frame and drops what the frame owns; with
\* no frame left the values held by the entry point are dropped, the latest
\* first, and the panic is caught by the catch_unwind of the entry point
unwind_step ==
    /\ ctl = "unwind"
    /\ IF stack # <<>>
          THEN /\ stack' = Pop(stack)
               /\ CurrentMemoryContext' =
                     IF Top.kind = "ctx"
                        THEN Drop_PgMemoryContext(frame_handle(Top), CurrentMemoryContext)
                        ELSE CurrentMemoryContext
               /\ left' = IF Top.kind = "ctx"
                             THEN {DropRec(frame_handle(Top), "unwind",
                                           CurrentMemoryContext, CurrentMemoryContext')}
                          ELSE IF Tracked(Top)
                             THEN {ExitRec(Top, "unwind", PG_exception_stack,
                                           CurrentMemoryContext)}
                          ELSE {}
               /\ UNCHANGED <<PG_exception_stack, ctl, unw, panic_count, handles, objs>>
       ELSE IF handles # <<>>
          THEN /\ CurrentMemoryContext' =
                     Drop_PgMemoryContext(handles[Len(handles)], CurrentMemoryContext)
               /\ handles' = Pop(handles)
               /\ left' = {DropRec(handles[Len(handles)], "unwind",
                                   CurrentMemoryContext, CurrentMemoryContext')}
               /\ UNCHANGED <<stack, PG_exception_stack, ctl, unw, panic_count, objs>>
       ELSE IF LiveObjs # {} /\ HasFresh
          THEN LET i == CHOOSE j \in LiveObjs : \A k \in LiveObjs : k <= j
               IN  /\ Drop_PgAllocated(i, objs[i], stack, "cleanup")
                   /\ ctl' = IF holds_pointer(objs[i]) THEN "run" ELSE "unwind"
                   /\ Quiet
                   /\ UNCHANGED <<CurrentMemoryContext, unw, panic_count, handles>>
       ELSE /\ ctl' = "run" /\ unw' = 0 /\ panic_count' = panic_count - 1
            /\ Quiet
            /\ UNCHANGED <<stack, glob, handles, objs>>
    /\ UNCHANGED <<hookInstalled, prop, regionSt, conv>>

\* ------------------------------------------------------- specification
InitBridge ==
    /\ stack = <<>>
    /\ PG_exception_stack = 0
    /\ CurrentMemoryContext = HostContext
    /\ hookInstalled = FALSE
    /\ panic_count = 0
    /\ ctl = "run"
    /\ unw = 0
    /\ left = {}
    /\ prop = NoSignal

InitMem ==
    /\ handles = <<>>
    /\ regionSt = [r \in Regions |->
                      IF r = "child" THEN [st |-> "absent", parent |-> "None"]
                      ELSE [st |-> "live",
                            parent |-> IF r = "TopMemoryContext" THEN "None"
                                       ELSE "TopMemoryContext"]]
    /\ objs = <<>>

Init == InitBridge /\ InitMem /\ conv = <<>>

\* the bridge itself; the guest may panic anywhere
NextCore ==
    \/ register_panic_handler
    \/ guard_pg_return
    \/ guard_pg_jumped
    \/ guard_pg_restore
    \/ guard_pg_panic
    \/ log_errstart
    \/ log_errfinish
    \/ log_return
    \/ \E r \in 0..1 : host_return(r)
    \/ \E v \in JumpValues : host_longjmp(v)
    \/ hook_start
    \/ hook_resume
    \/ guest_panic
    \/ unwind_step

\* a guest that nests allocator scopes, logs and uses library operations
Next ==
    \/ NextCore
    \/ \E r \in AllocRegions : PgAllocator_exec(r)
    \/ \E r \in AllocRegions : PgAllocator_exec_with_guard(r)
    \/ exec_return
    \/ \E lvl \in LogLevels : private_api_log(lvl)
    \/ \E site \in LibSites : lib_host_call(site)

Spec == Init /\ [][Next]_vars

\* a guest that makes regions current through PgMemoryContext values
NextCtx ==
    \/ PgMemoryContext_top
    \/ PgMemoryContext_message
    \/ PgMemoryContext_current
    \/ \E i \in 1..MaxHandles : switch_to(i)
    \/ \E i \in 1..MaxHandles : drop_handle(i)
    \/ \E i \in 1..MaxHandles : exec_in_context(i)
    \/ exec_in_context_return
    \/ guest_panic
    \/ unwind_step

SpecCtx == Init /\ [][NextCtx]_vars

\* a guest that manages regions through PgMemoryContext values
NextRegion ==
    \/ PgMemoryContext_top
    \/ PgMemoryContext_message
    \/ PgMemoryContext_current
    \/ \E i \in 1..MaxHandles : PgMemoryContext_create(i)
    \/ \E i \in 1..MaxHandles : switch_to(i)
    \/ \E i \in 1..MaxHandles : drop_handle(i)
    \/ \E i \in 1..MaxHandles : reset(i)
    \/ \E i \in 1..MaxHandles : reset_only(i)
    \/ \E i \in 1..MaxHandles : delete(i)

SpecRegion == Init /\ [][NextRegion]_vars

\* a guest that holds its PgMemoryContext values as a stack: it switches to
\* the value it took last, once or again, and drops the values in the reverse
\* of the order it took them
switch_to_latest == handles # <<>> /\ switch_to(Len(handles))

drop_latest == handles # <<>> /\ drop_handle(Len(handles))

NextNest ==
    \/ PgMemoryContext_top
    \/ PgMemoryContext_message
    \/ PgMemoryContext_current
    \/ \E i \in 1..MaxHandles : PgMemoryContext_create(i)
    \/ switch_to_latest
    \/ drop_latest

SpecNest == Init /\ [][NextNest]_vars

\* a guest that works with PgAllocated values
NextAlloc ==
    \/ NextCore
    \/ PgAllocated_from_raw
    \/ \E i \in 1..MaxObjs : PgAllocated_take_ptr(i)
    \/ \E i \in 1..MaxObjs : Text_into_ptr(i)
    \/ \E i \in 1..MaxObjs : PgAllocated_drop(i)
    \/ drop_return

SpecAlloc == Init /\ [][NextAlloc]_vars

\* a guest that logs through the macros and through pg_error::log
NextLog ==
    \/ NextCore
    \/ \E lvl \in LogLevels : private_api_log(lvl)
    \/ \E lvl \in ErrorLogLevels : error_log_errstart(lvl)
    \/ error_log_errfinish
    \/ error_log_return

SpecLog == Init /\ [][NextLog]_vars

\* a value of a numeric type is converted to a datum and back
InitConv ==
    /\ InitBridge /\ InitMem
    /\ conv \in {[stage |-> "value", ty |-> ty, v |-> v, datum |-> PgDatum_None,
                  out |-> [ok |-> FALSE, v |-> <<>>]] :
                    ty \in NumTypes, v \in UNION {Values(t) : t \in NumTypes}}
    /\ Len(conv.v) = Width(conv.ty)

NextConv ==
    \/ convert_from
    \/ convert_try_from

SpecConv == InitConv /\ [][NextConv]_vars

InitDatum ==
    /\ InitBridge /\ InitMem
    /\ conv \in DatumInputs \cup OptionInputs

NextDatum ==
    \/ datum_from_raw
    \/ datum_try_from
    \/ option_into_datum

SpecDatum == InitDatum /\ [][NextDatum]_vars

InitVarlena ==
    /\ InitBridge /\ InitMem
    /\ conv \in VarlenaInputs

NextVarlena ==
    \/ varlena_from_varlena
    \/ varlena_len

SpecVarlena == InitVarlena /\ [][NextVarlena]_vars

InitFdw ==
    /\ InitBridge /\ InitMem
    /\ conv \in FdwInputs

NextFdw ==
    \/ begin_foreign_scan
    \/ iterate_foreign_scan

SpecFdw == InitFdw /\ [][NextFdw]_vars

NextScan ==
    \/ begin_foreign_scan
    \/ iterate_foreign_scan
    \/ rescan_foreign_scan
    \/ end_foreign_scan

SpecScan == InitFdw /\ [][NextScan]_vars

InitModify ==
    /\ InitBridge /\ InitMem
    /\ conv \in ModifyInputs

NextModify ==
    \/ add_foreign_update_targets
    \/ begin_foreign_modify
    \/ exec_foreign_modify

SpecModify == InitModify /\ [][NextModify]_vars

\* the body of the wrapped function panics
pg_extern_guest_panic == stack # <<>> /\ guest_panic

InitExtern == InitBridge /\ InitMem /\ conv = NoCall

\* a backend that loads the library and calls a wrapped function, whose body
\* may panic
NextExtern ==
    \/ register_panic_handler
    \/ pg_extern_call
    \/ pg_extern_args
    \/ pg_extern_return
    \/ pg_extern_guest_panic
    \/ hook_start
    \/ hook_resume
    \/ log_errstart
    \/ log_errfinish
    \/ log_return
    \/ \E r \in 0..1 : host_return(r)
    \/ \E v \in JumpValues : host_longjmp(v)
    \/ guard_pg_return
    \/ guard_pg_jumped
    \/ guard_pg_restore
    \/ guard_pg_panic

SpecExtern == InitExtern /\ [][NextExtern]_vars

InitSql ==
    /\ InitBridge /\ InitMem
    /\ conv \in SqlInputs

NextSql == pg_create_stmt

SpecSql == InitSql /\ [][NextSql]_vars

\* ================================================================ claims

\* C1: every guard_pg call, however it is left (return of f, longjmp of the
\* host, panic inside f), leaves PG_exception_stack at the value it had on
\* entry and has put the saved value back exactly once.
C1_TargetRestoredOnEveryExit ==
    \A e \in left : e.kind = "guard" => e.ok


GuardFrames == {i \in 1..Len(stack) : stack[i].kind = "guard"}

\* C2: when the host longjmps to the target of a guard_pg call while f runs,
\* the call never returns f's result: it first puts the saved target back and
\* only then panics, with a JumpContext payload that is the jump value.
C2_JumpBecomesPanic ==
    /\ \A i \in GuardFrames :
          /\ stack[i].jv # 0 =>
                stack[i].pc \in {"jumped", "jumped_notice", "jumped_restore",
                                 "jumped_panic", "panicked"}
          /\ stack[i].pc = "jumped_panic" =>
                (PG_exception_stack = stack[i].orig /\ stack[i].nrest = 1)
          /\ stack[i].pc = "panicked" =>
                /\ stack[i].jv # 0 /\ stack[i].val = stack[i].jv
                /\ stack[i].pgr = stack[i].orig /\ stack[i].nrest = 1
                /\ (i < Len(stack) /\ stack[i + 1].kind = "hook") =>
                        stack[i + 1].val = stack[i].jv
    /\ \A e \in left : (e.kind = "guard" /\ e.jumped) => e.how # "return"

\* a guard_pg call was jumped to with the highest code, has panicked and the
\* hook is running with its payload
C2_Witness ==
    \E i \in GuardFrames :
        /\ stack[i].pc = "panicked" /\ stack[i].jv = MaxJump
        /\ i < Len(stack) /\ stack[i + 1].kind = "hook"

HookOnTop == Running /\ Top.kind = "hook"

\* C3: the panic hook never returns normally: for a JumpContext payload it
\* longjmps to the current PG_exception_stack with the payload's value; any
\* other payload it reports at Error severity, and that report does not
\* return.
C3_HookNeverReturns ==
    /\ [](\A i \in 1..Len(stack) :
            stack[i].kind = "hook" =>
                /\ stack[i].pc # "unreachable"
                /\ stack[i].pc \in {"notice", "longjmp"} => stack[i].val # 0
                /\ stack[i].pc = "error" => stack[i].val = 0)
    /\ [][HookOnTop =>
            /\ Top.pc = "start" =>
                  /\ Len(stack') = Len(stack) + 1
                  /\ stack'[Len(stack')].kind = "log"
                  /\ Top.val = 0 => stack'[Len(stack')].lvl \in ErrorLevels
            /\ Top.pc = "longjmp" =>
                  \/ ctl' = "ub"
                  \/ PG_exception_stack = 0 /\ stack' = <<>>
                  \/ /\ stack' # <<>>
                     /\ stack'[Len(stack')].kind = "guard"
                     /\ stack'[Len(stack')].id = PG_exception_stack
                     /\ stack'[Len(stack')].pc = "jumped"
                     /\ stack'[Len(stack')].jv = Top.val]_vars

\* the hook has announced a JumpContext and is about to longjmp
C3_Witness == HookOnTop /\ Top.pc = "longjmp" /\ Top.val = MaxJump

\* C4: with k >= 1 guard_pg calls active and a longjmp of the host in the
\* innermost f, the exit reaches every enclosing guard from the innermost to
\* the outermost and then the target that was current before the outermost,
\* with the same code at every step; no guard is skipped and the process is
\* not aborted on the way.
C4_SignalReachesEveryGuard ==
    /\ ~prop.bad
    /\ ~(ctl = "abort" /\ prop.rest # <<>>)

\* C5: whenever the library is inside a host routine that can signal, a
\* guard_pg call is active: PG_exception_stack is the target of a guard_pg
\* call that is running f.
C5_HostCallsGuarded ==
    (Running /\ Top.kind = "host") =>
        \E i \in GuardFrames :
            stack[i].id = PG_exception_stack /\ stack[i].pc = "f"

\* C6: exec and exec_with_guard leave CurrentMemoryContext at the value it
\* had before the call on every exit path.
C6_ContextRestoredOnEveryExit ==
    \A e \in left : e.kind = "exec" => e.ok


\* C7: the drop of a PgMemoryContext value on which switch_to was called
\* (at the end of its scope, at the end of exec_in_context after f returned
\* or panicked, or in delete) sets CurrentMemoryContext to the region that
\* was current before that switch_to; the drop of a value on which switch_to
\* was never called leaves CurrentMemoryContext as it is.
C7_DropRestoresContext ==
    \A e \in left : e.kind = "drop" => e.ok

\* f panicked inside exec_in_context and the unwinding dropped the handle,
\* which changed the current region back
C7_Witness ==
    \E e \in left : e.kind = "drop" /\ e.how = "unwind" /\ e.jumped /\ e.moved

\* C8: free_p is called on the pointer of a PgAllocated value at most once:
\* exactly once when the value is dropped holding its pointer, never when
\* take_ptr was called before the drop.
C8_FreedAtMostOnce ==
    \A i \in 1..Len(objs) :
        /\ objs[i].frees <= 1
        /\ objs[i].took => objs[i].frees = 0
        /\ (objs[i].dropped /\ ~objs[i].took) => objs[i].frees = 1

\* one value was dropped holding its pointer, another after take_ptr
C8_Witness ==
    /\ \E i \in 1..Len(objs) : objs[i].dropped /\ ~objs[i].took /\ objs[i].frees = 1
    /\ \E i \in 1..Len(objs) : objs[i].dropped /\ objs[i].took /\ objs[i].frees = 0

\* C9: no sequence of operations on PgMemoryContext values deletes or resets
\* a permanent region.
C9_PermanentRegionsKept ==
    \A r \in PermanentRegions : regionSt[r].st = "live"

\* C10: for T in i16, i32, i64, f32, f64 and every value v of T,
\* T::try_from(PgDatum::from(v)) is Ok(v), bit for bit.
C10_NumericRoundTrip ==
    conv.stage = "result" => conv.out = [ok |-> TRUE, v |-> conv.v]

\* i32 2147483647 went to a datum and came back
C10_Witness ==
    /\ conv.stage = "result" /\ conv.ty = "i32" /\ conv.v = <<65535, 32767>>
    /\ conv.out.ok

\* C11: a null datum converts to a non-optional T with the error "datum was
\* NULL" and to Option<T> with Ok(None); a non-null datum converts to
\* Option<T> with Some(x) exactly when it converts to T with Ok(x), and with
\* the error of T otherwise.
C11_OptionFollowsT ==
    conv.stage = "result" =>
        /\ is_null(conv.d) => conv.outT = Err("datum was NULL") /\ conv.outO = OkNone
        /\ ~is_null(conv.d) =>
              /\ conv.outT.ok => conv.outO = OkSome(conv.outT.v)
              /\ ~conv.outT.ok => conv.outO = ErrOpt(conv.outT.err)
              /\ (conv.outO.ok /\ conv.outO.some) => conv.outT = Ok(conv.outO.v)

\* a text that is not UTF-8 failed to convert to String and to Option<String>
C11_Witness ==
    /\ conv.stage = "result" /\ conv.ty = "String" /\ ~is_null(conv.d)
    /\ conv.outT = Err("String contained non-utf8 data")
    /\ conv.outO = ErrOpt("String contained non-utf8 data")

C13_NullWordIgnored ==
    (conv.stage = "result" /\ conv.null) =>
        /\ is_null(conv.d) /\ is_null(conv.d2)
        /\ into_datum(conv.d) = ZeroWord /\ into_datum(conv.d2) = ZeroWord
        /\ conv.outT = conv.outT2
        /\ conv.outO = conv.outO2

\* two different words were tagged null and converted
C13_Witness ==
    /\ conv.stage = "result" /\ conv.null /\ conv.w # conv.w2
    /\ conv.w # ZeroWord /\ conv.w2 # ZeroWord

\* a non-null array argument whose word is an address: the wrapper was made
ArrayConverted ==
    /\ conv.stage = "result" /\ conv.ty = "slice"
    /\ ~is_null(conv.d) /\ conv.d.word # ZeroWord

\* C17: a non-null array of n elements of T, of at most one dimension,
\* converts to a slice of exactly n elements, the i-th equal to the i-th
\* element of the array.
C17_SliceIsTheArray ==
    (ArrayConverted /\ conv.obj.ndim <= 1) => conv.outT = Ok(conv.obj.vals)

\* C18 as stated: the array conversion succeeds only when the array has
\* exactly one dimension; with 0, 2 or more it returns the dimensionality
\* error; a null array datum gives the null error.
C18_ExactlyOneDimension ==
    (conv.stage = "result" /\ conv.ty = "slice") =>
        /\ conv.outT.ok => conv.obj.ndim = 1
        /\ (ArrayConverted /\ conv.obj.ndim # 1) =>
              conv.outT = Err("argument must be empty or one-dimensional array")
        /\ is_null(conv.d) => conv.outT = Err("datum was NULL")

\* C18 amended: the array conversion fails with the dimensionality error
\* exactly when the array has two or more dimensions; an array without
\* dimension (the empty array) converts to the empty slice; a null array
\* datum, or a null address, gives the null error.
C18_AtMostOneDimension ==
    (conv.stage = "result" /\ conv.ty = "slice") =>
        /\ conv.outT.ok => conv.obj.ndim <= 1
        /\ (ArrayConverted /\ conv.obj.ndim > 1) =>
              conv.outT = Err("argument must be empty or one-dimensional array")
        /\ (ArrayConverted /\ conv.obj.ndim <= 1) => conv.outT.ok
        /\ (ArrayConverted /\ conv.obj.ndim = 0) => conv.outT = Ok(<<>>)
        /\ (is_null(conv.d) \/ conv.d.word = ZeroWord) => conv.outT = Err("datum was NULL")

\* an array of two dimensions was refused
C18_Witness ==
    /\ ArrayConverted /\ conv.obj.ndim = 2
    /\ conv.outT = Err("argument must be empty or one-dimensional array")

\* C19: when the array conversion returns, with a slice or with the
\* dimensionality error, the buffer pg_detoast_datum returned was freed once
\* if it is a copy and not at all if it is the argument itself.
C19_DetoastBufferFreedOnce ==
    ArrayConverted => conv.arr.frees.arr = IF conv.arr.copy THEN 1 ELSE 0

\* a detoasted copy of an array of two dimensions was freed on the error exit
C19_Witness ==
    /\ ArrayConverted /\ conv.arr.copy /\ ~conv.arr.res.ok
    /\ conv.arr.frees.arr = 1

\* C14: VarLenA::len of a value with a 4-byte uncompressed header is the
\* size in the header less 4 (17 gives 13), and of a value with a 1-byte
\* short header the size in the header less 1.
C14_LenIsSizeLessHeader ==
    conv.stage = "measured" =>
        /\ conv.layout = "4b_u" =>
              conv.variant = "VarAtt4b" /\ conv.len = [kind |-> "len", v |-> conv.total - 4]
        /\ conv.layout = "1b" =>
              conv.variant = "VarAtt1b" /\ conv.len = [kind |-> "len", v |-> conv.total - 1]

\* a value of 17 bytes with a 4-byte header has 13 bytes of data
C14_Witness ==
    /\ conv.stage = "measured" /\ conv.layout = "4b_u" /\ conv.total = 17
    /\ conv.len = [kind |-> "len", v |-> 13]

\* C15: from_varlena gives every header the variant of its own layout, one
\* of 4-byte uncompressed, 4-byte compressed, 1-byte short and 1-byte
\* out-of-line.
C15_LayoutRecognized ==
    conv.stage \in {"classified", "measured"} =>
        /\ VariantLayout(conv.variant) = conv.layout
        /\ conv.layout = HeaderLayout(conv.h)

\* C16: the length of a value whose layout is not decoded is an error value,
\* and no length computation panics.
C16_UndecodedIsError ==
    conv.stage = "measured" =>
        /\ conv.layout \in {"4b_c", "1b_e"} => conv.len.kind = "err"
        /\ conv.len.kind # "panic"

C21_RescanStartsOver ==
    (conv.stage \in {"scan", "end"} /\ conv.rescans > 0) =>
        \A k \in 1..Len(conv.seen) :
            /\ k <= Len(conv.rows) =>
                  conv.seen[k] = [empty |-> FALSE, tuple |-> heap_form_tuple(conv.rows[k])]
            /\ k = Len(conv.rows) + 1 => conv.seen[k] = ClearedSlot

\* C22: after end_foreign_scan the session begin_foreign_scan made is no
\* longer allocated.
C22_SessionReleasedAtEnd ==
    conv.stage = "ended" => ~conv.live

\* a row was pulled: the last call of iterate_foreign_scan stored a tuple
RowPulled == conv.stage = "scan" /\ conv.ret = "slot" /\ conv.seen # <<>>

\* C23: in the tuple made of a row, column i is not null and holds the word
\* get_field returned iff get_field gave Ok(Some(v)), and is null for Ok(None)
\* and for Err; each Err is reported once at Warning and the tuple is stored
\* in the slot all the same.
C23_ColumnsFollowGetField ==
    RowPulled =>
        /\ ~conv.slot.empty
        /\ \A i \in 1..NAttrs :
              /\ conv.rows[conv.pos][i] = "some" <=> ~conv.slot.tuple[i].isnull
              /\ conv.rows[conv.pos][i] = "some" => conv.slot.tuple[i].data = PtrWord
              /\ conv.rows[conv.pos][i] # "some" => conv.slot.tuple[i].isnull
        /\ Len(conv.reports) = Cardinality({i \in 1..NAttrs : conv.rows[conv.pos][i] = "err"})
        /\ \A j \in 1..Len(conv.reports) : conv.reports[j].level = "Warning"

\* a row with a failed column and a column that has a value was stored
C23_Witness ==
    /\ RowPulled
    /\ \E i, j \in 1..NAttrs :
          /\ conv.rows[conv.pos][i] = "err" /\ conv.rows[conv.pos][j] = "some"
          /\ conv.slot.tuple[i].isnull /\ ~conv.slot.tuple[j].isnull
    /\ Len(conv.reports) = 1

\* the update or delete method of the wrapper was called on a row
IndexTupleGiven ==
    /\ conv.stage \in {"modify", "aborted"} /\ conv.calls > 0
    /\ conv.op \in {"update", "delete"}

\* C24: when the wrapper declares index columns, the index tuple every
\* update and delete receives has an entry for each of them, whatever
\* columns the statement named.
C24_IndexTupleHasKeys ==
    (IndexTupleGiven /\ ~conv.keys.none) =>
        \A i \in 1..Len(conv.keys.names) : conv.keys.names[i] \in conv.got

\* UPDATE .. SET value with index column key: update received key
C24_Witness ==
    /\ IndexTupleGiven /\ conv.op = "update" /\ conv.keys.names = <<"key">>
    /\ \A i \in 1..Len(conv.before) : conv.before[i].resname = "value"
    /\ "key" \in conv.got

\* the target entries add_foreign_update_targets appended
Appended == SubSeq(conv.targetList, Len(conv.before) + 1, Len(conv.targetList))

TargetsAdded ==
    /\ conv.stage = "planned" /\ ~conv.keys.none

\* C25 as stated: one hidden entry is appended for each index column absent
\* from the target list and none for one already present; the entries
\* already there stay and each new entry is numbered after the list.
C25_AppendsAbsentKeysOnly ==
    TargetsAdded =>
        /\ SubSeq(conv.targetList, 1, Len(conv.before)) = conv.before
        /\ \A i \in 1..Len(conv.keys.names) :
              LET present == \E j \in 1..Len(conv.before) :
                                 conv.before[j].resname = conv.keys.names[i]
                  added == {j \in 1..Len(Appended) :
                               Appended[j].resname = conv.keys.names[i]}
              IN  Cardinality(added) = IF present THEN 0 ELSE 1
        /\ \A j \in 1..Len(Appended) :
              Appended[j].resjunk /\ Appended[j].resno = Len(conv.before) + j

\* C25 amended: one hidden entry is appended for each index column, in the
\* order declared, whether or not the target list already names the column;
\* the entries already there stay and each new entry is numbered after the
\* list as it was when the entry was appended.
C25_AppendsEveryKey ==
    TargetsAdded =>
        /\ SubSeq(conv.targetList, 1, Len(conv.before)) = conv.before
        /\ Len(Appended) = Len(conv.keys.names)
        /\ \A j \in 1..Len(Appended) :
              /\ Appended[j].resname = conv.keys.names[j]
              /\ Appended[j].resjunk
              /\ Appended[j].resno = Len(conv.before) + j

\* two index columns were added to a target list that named one of them
C25_Witness ==
    /\ TargetsAdded /\ Len(conv.keys.names) = 2 /\ Len(conv.before) = 1
    /\ conv.before[1].resname = conv.keys.names[1]
    /\ Len(conv.targetList) = 3

\* C26: update, insert and delete of a wrapper that does not define them
\* report their own message at Error; the callback does not return, so it
\* hands no row to the host.
C26_DefaultsReportError ==
    (conv.stage \in {"modify", "aborted"} /\ conv.calls > 0 /\ conv.impl = "default") =>
        /\ conv.report = <<[level |-> "Error", msg |-> DefaultMessage(conv.op)]>>
        /\ conv.exit = "longjmp" /\ conv.ret = "" /\ conv.stage = "aborted"
        /\ conv.op = "update" => conv.report[1].msg = "Table does not support update"
        /\ conv.op = "insert" => conv.report[1].msg = "Table does not support insert"
        /\ conv.op = "delete" => conv.report[1].msg = "Table does not support delete"

\* insert of a wrapper that has none was refused
C26_Witness ==
    /\ conv.stage = "aborted" /\ conv.calls = 1 /\ conv.op = "insert"
    /\ conv.impl = "default" /\ conv.exit = "longjmp"

\* C27: when the guest function panics in a wrapper of pg_extern, the host
\* gets the call back by a non-local exit at Error: the process is not
\* aborted, and the wrapper does not return a datum.
C27_PanicBecomesError ==
    /\ conv.stage = "guest" => ctl # "abort"
    /\ conv.stage = "returned" => panic_count = conv.panics

\* C28: when the conversion of argument i fails, the guest function is not
\* called and the host gets the call back by a non-local exit at Error whose
\* message names arg_i.
C28_ArgFailureBecomesError ==
    conv.stage = "argfail" =>
        /\ ctl # "abort"
        /\ conv.msg = arg_error(0)
        /\ \A i \in 1..Len(stack) : stack[i].body # "guest"

\* C29: when the guest function returns, the wrapper sets the null flag of
\* the call record iff the result datum is null, whatever the flag was, and
\* returns the word of the result, 0 for a null one.
C29_ResultWrittenBack ==
    conv.stage = "returned" =>
        /\ conv.isnull <=> is_null(conv.result)
        /\ conv.ret = IF is_null(conv.result) THEN ZeroWord ELSE conv.result.word

\* the call after one that gave null returned a value
C29_Witness ==
    /\ conv.stage = "returned" /\ conv.n = 2
    /\ ~conv.isnull /\ conv.ret = PtrWord

\* the arguments of the signature that are arguments of the SQL function,
\* and those of them that are Option
SqlArgPlaces ==
    {i \in 1..Len(conv.arg_types) : ~(i = 1 /\ conv.arg_types[i] = "PgAllocator")}

OptionPlaces == {i \in SqlArgPlaces : conv.arg_types[i] = "Option_i32"}

\* C30: the statement has STRICT iff the function has an SQL argument and no
\* SQL argument is Option; it has no STRICT when there is no SQL argument or
\* all are Option; making it fails iff Option and other arguments are mixed.
\* A leading PgAllocator is no SQL argument.
C30_StrictIffNoOption ==
    conv.stage = "stmt" =>
        /\ conv.opts = " STRICT" <=> (SqlArgPlaces # {} /\ OptionPlaces = {})
        /\ conv.opts = "" <=> (SqlArgPlaces = {} \/ OptionPlaces = SqlArgPlaces)
        /\ conv.opts = "panic" <=> (OptionPlaces # {} /\ OptionPlaces # SqlArgPlaces)

\* a function of a PgAllocator and one plain argument is STRICT
C30_Witness ==
    /\ conv.stage = "stmt" /\ conv.arg_types = <<"PgAllocator", "i32">>
    /\ conv.opts = " STRICT"

\* the log calls on the stack that guest code made
GuestLogs ==
    {i \in 1..Len(stack) :
        /\ stack[i].kind = "log"
        /\ i > 1 => /\ stack[i - 1].kind # "hook"
                    /\ ~(stack[i - 1].kind = "guard" /\ stack[i - 1].pc = "jumped_notice")}

\* C31: a log call at Error or above never returns to its guest caller: it is
\* left by the non-local exit the host makes once the message is recorded
\* (errfinish), and that exit fails the statement, it does not end the
\* process; a log call below Error is never left by a non-local exit, it
\* returns to its caller.
C31_ErrorLogNeverReturns ==
    /\ \A i \in GuestLogs :
          IF stack[i].lvl \in ErrorLevels
             THEN /\ stack[i].pc # "done"
                  /\ (i < Len(stack) /\ stack[i + 1].jv # 0) =>
                        (stack[i].pc = "errfinish_wait" /\ stack[i].nrest = 2)
             ELSE i < Len(stack) => stack[i + 1].jv = 0
    /\ ctl = "abort" => \A i \in GuestLogs : stack[i].lvl \notin ErrorLevels

\* the host routines through which a message is emitted
EmitRoutines == {"errstart", "errfinish"}

\* C32: every emission of a log message, through the log macros and through
\* pg_error::log, makes its errstart and its errmsg/errfinish calls inside
\* guard_pg: while the host is in one of them, the frame that called it is a
\* guard_pg call running f whose buffer is PG_exception_stack.
C32_EmissionGuarded ==
    (Running /\ Top.kind = "host" /\ Top.body \in EmitRoutines) =>
        /\ Len(stack) > 1
        /\ stack[Len(stack) - 1].kind = "guard"
        /\ stack[Len(stack) - 1].pc = "f"
        /\ stack[Len(stack) - 1].id = PG_exception_stack

\* the log calls of the macros on the stack
MacroLogs == {i \in 1..Len(stack) : stack[i].kind = "log"}

\* C40: in __private_api_log, when errstart returns false neither errmsg nor
\* errfinish is called: errstart stays the only host call of the log call,
\* which returns to its caller with the exception target as it was on entry;
\* the second guarded call is made only after errstart returned true.
C40_SuppressedLogMakesNoCall ==
    \A i \in MacroLogs :
        /\ stack[i].pc \in {"errfinish", "errfinish_wait"} => stack[i].val = 1
        /\ (stack[i].pc = "done" /\ stack[i].val = 0) =>
              /\ stack[i].nrest = 1
              /\ i = Len(stack)
              /\ PG_exception_stack = stack[i].pgr

\* a suppressed notice of the guest is about to return
C40_Witness ==
    /\ Running /\ Top.kind = "log" /\ Top.pc = "done" /\ Top.val = 0
    /\ Len(stack) \in GuestLogs

\* C33: when the array conversion returns Ok, the element word array that
\* backs the returned slice has not been released, neither when detoasting
\* handed back the argument nor when it made a copy.
C33_SliceStorageKept ==
    (ArrayConverted /\ conv.arr.res.ok) => conv.arr.frees.elements = 0

\* C34: from BeginForeignModify on, the session ri_FdwState refers to is live
\* at the start of every ExecForeignInsert, ExecForeignUpdate and
\* ExecForeignDelete call, and no call takes the box of a session that was
\* already dropped.
C34_ModifySessionLive ==
    /\ conv.stage = "modify" => (conv.live /\ conv.ri_FdwState = SessionPtr)
    /\ conv.stage # "ub"

\* C35: PG_exception_stack is a target of the host or the jump buffer of a
\* guard_pg call that is still on the stack.
C35_TargetNeverDangles ==
    \/ PG_exception_stack = 0
    \/ \E i \in GuardFrames : stack[i].id = PG_exception_stack

\* C36: when PgMemoryContext values are switched to in nested order and
\* dropped in the reverse order, the drop of the last of them leaves
\* CurrentMemoryContext at the region that was current before the first
\* switch_to, however often switch_to was called on a value.
C36_NestedSwitchRestores ==
    [][(Len(handles) = 1 /\ handles' = <<>>) =>
            CurrentMemoryContext' = handles[1].base]_vars

\* C37: CurrentMemoryContext never refers to a region that was deleted:
\* after delete() on a value whose region is the current one or an ancestor
\* of it, the current region is a live region.
C37_CurrentRegionLive ==
    (\E e \in left : e.kind = "drop" /\ e.how = "delete") =>
        regionSt[CurrentMemoryContext].st # "deleted"

\* the size a header of the variant encodes, as VarLenA::len reads it
EncodedSize(variant, h) ==
    IF variant = "VarAtt4b" THEN (h[1] \div 4) + (h[2] * 16384)
    ELSE (FirstByte(h) \div 2) % 128

\* C38: for every header from_varlena classifies as a 4-byte-header or a
\* 1-byte-header value, VarLenA::len returns a length between 0 and the size
\* the header encodes: the subtraction of the header size neither panics nor
\* wraps around.
C38_LenNeverUnderflows ==
    (conv.stage = "measured" /\ conv.variant \in {"VarAtt4b", "VarAtt1b"}) =>
        /\ conv.len.kind = "len"
        /\ conv.len.v >= 0 /\ conv.len.v <= EncodedSize(conv.variant, conv.h)

\* C39: the create statement declares as many arguments as the guest
\* function has SQL arguments (a leading PgAllocator left out), the i-th
\* declared type is the SQL type name of the i-th of them (int4 for i32, int8
\* for i64), and the RETURNS clause names the SQL type of the result.
C39_DeclaredTypesFollowSignature ==
    conv.stage = "stmt" =>
        /\ Len(conv.params) = Cardinality(SqlArgPlaces)
        /\ \A i \in 1..Len(conv.params) :
              conv.params[i] = as_str(pg_type(sql_args(conv.arg_types)[i]))
        /\ \A i \in 1..Len(conv.params) :
              /\ sql_args(conv.arg_types)[i] = "i32" => conv.params[i] = "int4"
              /\ sql_args(conv.arg_types)[i] = "i64" => conv.params[i] = "int8"
        /\ conv.ret = <<"RETURNS", as_str(pg_type(conv.output))>>

====
